---------------------------- MODULE Spec2Model ----------------------------
(***************************************************************************)
(* Model of the extraction engine of firebird_peregrine_falcon             *)
(* (src/src/extractor.rs): the connection pool, the metadata prober, the   *)
(* dispatch of extract_table, the range-partitioned parallel path          *)
(* (extract_parallel_pk / extract_partition / merge_parquet_files) and the *)
(* sequential three-stage pipeline (extract_sequential).                   *)
(*                                                                         *)
(* Rows are not enumerated: a table is a key interval min..max minus a     *)
(* finite set of missing keys, and every query result, page, batch and     *)
(* file is described by row counts and by the key range or page it came    *)
(* from.  The f64 arithmetic of the partition planner is modelled by exact *)
(* rational arithmetic: for the key spans and worker counts used here,     *)
(* ((max-min) as f64 / N as f64 * i as f64) as i64 equals                  *)
(* floor((max-min)*i / N).                                                 *)
(***************************************************************************)
EXTENDS Integers, Sequences, FiniteSets, TLC

VARIABLES
    table,          \* the database table being extracted (environment)
    parallelism,    \* ExtractorConfig.parallelism
    pool_size,      \* ExtractorConfig.pool_size
    threads,        \* number of threads of the rayon thread pool (environment)
    idle,           \* ConnectionPool.connections: Vec of idle connection ids
    created,        \* number of connections created so far (ids 1..created)
    meta_conn,      \* lease held by load_metadata (0 = none)
    fetch_conn,     \* lease held by the sequential fetch thread (0 = none)
    part_conn,      \* lease held by partition worker i (0 = none)
    pc,             \* position of the thread running extract_table
    meta,           \* TableMetadata once loaded
    batch_size,     \* calculate_batch_size(meta.row_count, meta.has_blob)
    total_rows,     \* running total_rows of the orchestrator
    result,         \* what extract_table returned
    reported,       \* partition indices for which "Partition i failed" was logged
    partition_files,\* merge inputs: partition indices, in push order
    progress,       \* total_rows values at which a progress line was printed
    merge_failed,   \* merge_parquet_files returned an error
    files,          \* the output directory: file name -> content
    wpc,            \* partition worker i: position in extract_partition
    wrange,         \* partition worker i: the <<start_pk, end_pk>> it queried (<<>> = no query yet)
    wrows,          \* partition worker i: rows.len() of its query
    wchunk,         \* partition worker i: chunks handed to the queue so far
    wq,             \* partition worker i: bounded(4) handoff queue
    wwriter,        \* partition worker i: position of its writer thread
    wres,           \* partition worker i: what extract_partition returned
    wfailed,        \* partition worker i: a step of the worker or of its writer thread failed
    fetcher,        \* sequential fetch thread: position, offset, page in hand, failure met
    fetch_q,        \* bounded(10) queue fetch thread -> orchestrator
    batch_q,        \* bounded(8) queue orchestrator -> writer thread
    held,           \* the batch the orchestrator built and is sending (NoneMsg = none)
    swriter,        \* sequential writer thread: position
    bcols,          \* build_arrow_batch: meta.columns of the call
    brows,          \* build_arrow_batch: the rows of the call
    bbatch          \* build_arrow_batch: what the call returned

vars == <<table, parallelism, pool_size, threads, idle, created, meta_conn, fetch_conn,
          part_conn, pc, meta, batch_size, total_rows, result, reported,
          partition_files, progress, merge_failed, files, wpc, wrange, wrows, wchunk, wq,
          wwriter, wres, wfailed, fetcher, fetch_q, batch_q, held, swriter,
          bcols, brows, bbatch>>

cfg_vars == <<table, parallelism, pool_size, threads>>
pool_vars == <<idle, created, meta_conn, fetch_conn, part_conn>>
orch_vars == <<pc, meta, batch_size, total_rows, result, reported,
               partition_files, progress, merge_failed>>
part_vars == <<wpc, wrange, wrows, wchunk, wq, wwriter, wres, wfailed>>
seq_vars == <<fetcher, fetch_q, batch_q, held, swriter>>
build_vars == <<bcols, brows, bbatch>>

----------------------------------------------------------------------------
(* Bounds of the model. *)

\* Largest parallelism of the full specification.
MaxParallelism == 2
\* Largest pool_size.
MaxPool == 1
\* Largest key span max - min of the small keyed tables.
MaxSpan == 3
\* Largest parallelism and key span of the planning specification.
PlanMaxParallelism == 5
PlanMaxSpan == 9
\* Largest pool_size of the construction specification.
NewMaxPool == 3
\* Most rows of a batch in the batch-building specification.
BuildMaxRows == 2

(* Program constants. *)

\* bounded(10): the fetch queue of extract_sequential.
FetchQueueCap == 10
\* bounded(8): the batch queue of extract_sequential.
BatchQueueCap == 8
\* bounded(4): the handoff queue of extract_partition.
PartQueueCap == 4
\* total_rows % 500_000 == 0: the progress report of extract_sequential.
ProgressEvery == 500000
\* row_count > 10_000_000: the large-table threshold of detect_pk.
LargeTable == 10000000
\* with_batch_size(100_000): the read batch size of merge_parquet_files.
MergeBatchRows == 100000

----------------------------------------------------------------------------
(* Helpers. *)

Max(a, b) == IF a >= b THEN a ELSE b
Min(a, b) == IF a <= b THEN a ELSE b

RECURSIVE SumSeq(_)
SumSeq(s) == IF s = <<>> THEN 0 ELSE Head(s) + SumSeq(Tail(s))

\* ceil(a / b) for a >= 0, b > 0
CeilDiv(a, b) == (a + b - 1) \div b

----------------------------------------------------------------------------
(* The environment: tables of the database. *)

\* A table has at most one index here. has_index: it has one; index_type:
\* its rdb$index_type (1 for a descending index, 0 for an ascending one);
\* pk_constraint: the index is the one of the PRIMARY KEY constraint (which
\* is ascending unless declared USING DESCENDING INDEX); pk_types: the
\* rdb$field_type of each of its key columns.

\* A table with a single-column integer primary key, whose index is
\* descending: keys are min..max without `gaps` (min and max themselves are
\* present).
PkTable(min, max, gaps, blob) ==
    [has_index |-> TRUE, index_type |-> 1, pk_constraint |-> TRUE,
     pk_types |-> <<8>>, min |-> min, max |-> max,
     gaps |-> gaps, mult |-> 1, rows |-> (max - min + 1) - Cardinality(gaps),
     has_blob |-> blob]

\* A table with a composite integer key: `mult` rows per leading key value.
CompositeTable(min, max, mult, blob) ==
    [has_index |-> TRUE, index_type |-> 1, pk_constraint |-> TRUE,
     pk_types |-> <<8, 16>>, min |-> min, max |-> max,
     gaps |-> {}, mult |-> mult, rows |-> (max - min + 1) * mult,
     has_blob |-> blob]

\* An empty table with an integer primary key: MIN and MAX are NULL.
EmptyPkTable ==
    [has_index |-> TRUE, index_type |-> 1, pk_constraint |-> TRUE,
     pk_types |-> <<8>>, min |-> 0, max |-> 0,
     gaps |-> {}, mult |-> 1, rows |-> 0, has_blob |-> FALSE]

\* A table without usable key: no index at all, an index without segments,
\* or a key column that is not SMALLINT/INTEGER/BIGINT (pk_types holds the
\* rdb$field_type of each key column).
HeapTable(rows, blob, has_index, pk_types) ==
    [has_index |-> has_index, index_type |-> IF has_index THEN 1 ELSE 0,
     pk_constraint |-> has_index, pk_types |-> pk_types, min |-> 0, max |-> 0,
     gaps |-> {}, mult |-> 1, rows |-> rows, has_blob |-> blob]

\* A table with keys min..max in an INTEGER column that has an index of the
\* given rdb$index_type, which is the primary key's index or not.
IndexedTable(min, max, index_type, pk_constraint) ==
    [PkTable(min, max, {}, FALSE) EXCEPT !.index_type = index_type,
                                         !.pk_constraint = pk_constraint]

\* SELECT COUNT(*) FROM table
CountRows(t) == t.rows

\* Number of rows of t whose leading key lies in a..b (WHERE k >= a AND k <= b).
RowsInRange(t, a, b) ==
    IF t.rows = 0 THEN 0
    ELSE LET lo == Max(a, t.min)
             hi == Min(b, t.max)
         IN IF lo > hi THEN 0
            ELSE t.mult * ((hi - lo + 1) - Cardinality({g \in t.gaps : lo <= g /\ g <= hi}))

\* Number of rows of the table a "ROWS first TO last" page returns.
RowsInPage(t, first, last) ==
    IF first > t.rows THEN 0 ELSE Min(last, t.rows) - first + 1

----------------------------------------------------------------------------
(* Pure functions of the program. *)

\* Mutant: the third tier still has its former size of 300K.
calculate_batch_size_old_tier(row_count, has_blob) ==
    LET base_batch == IF row_count < 200000 THEN 250000
                      ELSE IF row_count < 10000000 THEN 500000
                      ELSE IF row_count < 50000000 THEN 300000
                      ELSE 1000000
        batch == IF has_blob THEN (base_batch * 2) \div 3 ELSE base_batch
    IN Max(batch, 100000)

\* calculate_batch_size(row_count, has_blob)
calculate_batch_size(row_count, has_blob) ==
    LET base_batch == IF row_count < 200000 THEN 250000
                      ELSE IF row_count < 10000000 THEN 500000
                      ELSE IF row_count < 50000000 THEN 750000
                      ELSE 1000000
        batch == IF has_blob THEN (base_batch * 2) \div 3 ELSE base_batch
    IN Max(batch, 100000)

\* No primary key information (Option::None).
NoPk == [some |-> FALSE, ncols |-> 0, min |-> 0, max |-> 0, row_count |-> 0]

\* 7 = SMALLINT, 8 = INTEGER, 16 = BIGINT
IsIntegralType(fb_type) == fb_type = 7 \/ fb_type = 8 \/ fb_type = 16

\* detect_pk(conn, table), when none of its queries fails.
detect_pk(t) ==
    IF ~(t.has_index /\ t.index_type = 1) THEN NoPk
    ELSE IF t.pk_types = <<>> THEN NoPk
    ELSE IF \E c \in 1..Len(t.pk_types) : ~IsIntegralType(t.pk_types[c]) THEN NoPk
    ELSE IF CountRows(t) > LargeTable /\ Len(t.pk_types) > 1
         THEN [some |-> TRUE, ncols |-> Len(t.pk_types), min |-> 0,
               max |-> CountRows(t), row_count |-> CountRows(t)]
         ELSE [some |-> TRUE, ncols |-> Len(t.pk_types), min |-> t.min,
               max |-> t.max, row_count |-> CountRows(t)]

\* load_metadata(table), when none of its queries fails.
load_metadata(t) ==
    [loaded |-> TRUE, row_count |-> CountRows(t), has_blob |-> t.has_blob,
     pk |-> detect_pk(t)]

\* TableMetadata before load_metadata has run.
NoMeta == [loaded |-> FALSE, row_count |-> 0, has_blob |-> FALSE, pk |-> NoPk]

\* (pk_step * i as f64) as i64, with
\* pk_step = if pk_range > 0 { pk_range as f64 / parallelism as f64 } else { 1.0 }
pk_step_times(pk, n, i) ==
    LET pk_range == pk.max - pk.min
    IN IF pk_range > 0 THEN (pk_range * i) \div n ELSE i

\* Mutant: every worker starts one key after its lower boundary.
start_pk_exclusive(pk, n, i) == pk.min + pk_step_times(pk, n, i) + 1

\* start_pk of partition worker i
start_pk(pk, n, i) == pk.min + pk_step_times(pk, n, i)

\* end_pk of partition worker i
end_pk(pk, n, i) ==
    IF i = n - 1 THEN pk.max ELSE pk.min + pk_step_times(pk, n, i + 1)

\* The range predicate of extract_partition's query:
\* WHERE pk >= start_pk AND pk <= end_pk
InQueryRange(k, r) == k >= r[1] /\ k <= r[2]

\* Number of chunks of rows.chunks(batch_size)
NumChunks(rows, bs) == CeilDiv(rows, bs)

\* Mutant: the last chunk is as long as the others.
ChunkLen_full(rows, bs, c) == bs

\* Length of chunk c (0-based) of rows.chunks(batch_size)
ChunkLen(rows, bs, c) == Min(bs, rows - c * bs)

----------------------------------------------------------------------------
(* Queue messages and files. *)

\* Some(batch): a page or record batch of `rows` rows, which are the rows
\* from+1 .. from+rows of the query result (or of the table) it was cut from.
SomeMsg(rows, from) == [some |-> TRUE, rows |-> rows, from |-> from]
\* None: the completion sentinel.
NoneMsg == [some |-> FALSE, rows |-> 0, from |-> 0]

\* A batch written to a file: rows from+1 .. from+rows of source src (the
\* partition index; 0 in the sequential path).
FileBatch(src, from, rows) == [src |-> src, from |-> from, rows |-> rows]

NoFile == [exists |-> FALSE, batches |-> <<>>, closed |-> FALSE]
\* File::create: the file exists and is empty.
NewFile == [exists |-> TRUE, batches |-> <<>>, closed |-> FALSE]

\* Rows held by a file.
FileRows(f) == SumSeq([b \in 1..Len(f.batches) |-> f.batches[b].rows])

Workers == 0..(parallelism - 1)

----------------------------------------------------------------------------
(* Configurations: the table and the ExtractorConfig of one run. *)

\* Row counts of the tables without usable key.
SeqRowCounts == {1, 199999, 600000, 1000000, 6000000}

\* A configuration of one run.
Cfg(t, n, p, th) == [table |-> t, parallelism |-> n, pool_size |-> p, threads |-> th]

\* The keyed table with the widest span.
WideTable == PkTable(1, 1 + MaxSpan, {}, FALSE)

\* Tables of the full specification.
Tables ==
    {PkTable(1, 1 + s, {}, FALSE) : s \in 0..MaxSpan}
    \cup {PkTable(1, 2 + MaxSpan, {2}, TRUE), PkTable(1, 1000000, {}, FALSE),
          EmptyPkTable}
    \cup {HeapTable(r, FALSE, FALSE, <<>>) : r \in SeqRowCounts \cup {0}}
    \cup {HeapTable(1000000, TRUE, FALSE, <<>>),
          HeapTable(600000, FALSE, TRUE, <<37>>),
          HeapTable(600000, FALSE, TRUE, <<>>),
          HeapTable(600000, FALSE, TRUE, <<8, 37>>)}

\* Every table with one and with two workers, and the widest keyed table
\* with MaxParallelism workers; the thread pool never limits the workers.
Configs ==
    {Cfg(t, n, p, n) : t \in Tables, n \in {1, 2}, p \in 0..MaxPool}
    \cup {Cfg(WideTable, MaxParallelism, MaxPool, MaxParallelism)}

\* Row counts around every tier boundary of calculate_batch_size.
PlanRowCounts ==
    {0, 1, 199999, 200000, 9999999, 10000000, 49999999, 50000000, 60000000}

\* Tables of the planning specification.
PlanTables ==
    {PkTable(m, m + s, {}, FALSE) : m \in {-3, 1}, s \in 0..PlanMaxSpan}
    \cup {PkTable(1, r, {}, b) : r \in PlanRowCounts \ {0}, b \in BOOLEAN}
    \cup {PkTable(1, 1000000, {}, FALSE), PkTable(0, PlanMaxSpan, {1, 2}, TRUE),
          CompositeTable(1, 10, 1000001, FALSE), EmptyPkTable}
    \cup {IndexedTable(1, 2, ty, pkc) : ty \in {0, 1}, pkc \in BOOLEAN}
    \cup {HeapTable(r, b, FALSE, <<>>) : r \in PlanRowCounts, b \in BOOLEAN}

\* Every planning table with 1..PlanMaxParallelism workers, run by a
\* thread pool of one thread.
PlanConfigs ==
    {Cfg(t, n, MaxPool, 1) : t \in PlanTables, n \in 1..PlanMaxParallelism}

----------------------------------------------------------------------------
(* Initial state: Extractor::new has returned, extract_table has been called. *)

NoResult == [kind |-> "none", rows |-> 0]
OkResult(rows) == [kind |-> "ok", rows |-> rows]
ErrResult == [kind |-> "err", rows |-> 0]

\* No call of build_arrow_batch has returned.
NoBatch == [ok |-> FALSE, arrays |-> <<>>, returned |-> FALSE]

\* The state of an extraction but for the pool and the position of the
\* caller: no lease, no thread, no file.
InitExtract(cfgs) ==
    /\ \E c \in cfgs :
        /\ table = c.table
        /\ parallelism = c.parallelism
        /\ pool_size = c.pool_size
        /\ threads = c.threads
    /\ meta_conn = 0
    /\ fetch_conn = 0
    /\ part_conn = [i \in Workers |-> 0]
    /\ meta = NoMeta
    /\ batch_size = 0
    /\ total_rows = 0
    /\ result = NoResult
    /\ reported = {}
    /\ partition_files = <<>>
    /\ progress = <<>>
    /\ merge_failed = FALSE
    /\ files = [out |-> NoFile, part |-> [i \in Workers |-> NoFile]]
    /\ wpc = [i \in Workers |-> "idle"]
    /\ wrange = [i \in Workers |-> <<>>]
    /\ wrows = [i \in Workers |-> 0]
    /\ wchunk = [i \in Workers |-> 0]
    /\ wq = [i \in Workers |-> <<>>]
    /\ wwriter = [i \in Workers |-> "none"]
    /\ wres = [i \in Workers |-> NoResult]
    /\ wfailed = [i \in Workers |-> FALSE]
    /\ fetcher = [pc |-> "none", offset |-> 0, page |-> 0, failed |-> "no"]
    /\ fetch_q = <<>>
    /\ batch_q = <<>>
    /\ held = NoneMsg
    /\ swriter = "none"

\* The same, with no batch under construction.
InitRun(cfgs) ==
    /\ InitExtract(cfgs)
    /\ bcols = <<>>
    /\ brows = <<>>
    /\ bbatch = NoBatch

InitWith(cfgs) ==
    /\ InitRun(cfgs)
    \* ConnectionPool::new: pool_size connections, all idle
    /\ idle = [c \in 1..pool_size |-> c]
    /\ created = pool_size
    /\ pc = "start"

Init == InitWith(Configs)

InitPlan == InitWith(PlanConfigs)

\* Every table with pools of 0..NewMaxPool connections.
NewConfigs == {Cfg(t, n, p, n) : t \in Tables, n \in {1, 2}, p \in 0..NewMaxPool}

\* Extractor::new has been called and ConnectionPool::new has not yet run.
InitNew ==
    /\ InitRun(NewConfigs)
    /\ idle = <<>>
    /\ created = 0
    /\ pc = "new"

----------------------------------------------------------------------------
(* ConnectionPool. *)

\* Mutant: a failed connection attempt is skipped.
pool_new_skipping(size, fail_at) ==
    IF fail_at = 0 THEN [ok |-> TRUE, connections |-> [c \in 1..size |-> c]]
    ELSE [ok |-> TRUE, connections |-> [c \in 1..(size - 1) |-> c]]

\* ConnectionPool::new(config) for pool_size = size, where connection
\* attempt fail_at is the first to fail (0: none fails): the `?` after
\* create_connection returns the error and drops the connections made.
pool_new(size, fail_at) ==
    IF fail_at = 0 THEN [ok |-> TRUE, connections |-> [c \in 1..size |-> c]]
    ELSE [ok |-> FALSE, connections |-> <<>>]

\* Extractor::new: ConnectionPool::new(config)?, then Ok(Self { .. }); on
\* an error there is no Extractor to call extract_table on.
Extractor_new(fail_at) ==
    /\ pc = "new"
    /\ LET p == pool_new(pool_size, fail_at)
       IN /\ idle' = p.connections
          /\ created' = Len(p.connections)
          /\ pc' = IF p.ok THEN "start" ELSE "new_failed"
          /\ result' = IF p.ok THEN result ELSE ErrResult
    /\ UNCHANGED <<build_vars, cfg_vars, meta_conn, fetch_conn, part_conn, meta, batch_size,
                   total_rows, reported, partition_files, progress, merge_failed,
                   files, part_vars, seq_vars>>

\* ConnectionPool::acquire can return a connection: it pops an idle one, or,
\* the idle set being empty, create_connection succeeds (connect_ok).
acquire_succeeds(connect_ok) == idle # <<>> \/ connect_ok

\* Mutant: with an empty idle set, the connection created last is handed
\* out again instead of a new one.
acquire_conn_reused == IF idle # <<>> THEN idle[Len(idle)] ELSE Max(created, 1)

\* The connection ConnectionPool::acquire leases.
acquire_conn == IF idle # <<>> THEN idle[Len(idle)] ELSE created + 1

\* Mutant: the connection handed out stays in the idle set.
acquire_idle_kept == idle

\* The idle set after ConnectionPool::acquire.
acquire_idle == IF idle # <<>> THEN SubSeq(idle, 1, Len(idle) - 1) ELSE idle

\* Mutant: every acquire counts a new connection, an idle one being there
\* or not.
acquire_created_always == created + 1

\* The number of connections created after a successful acquire.
acquire_created == IF idle # <<>> THEN created ELSE created + 1

\* Mutant: the dropped lease closes its connection instead of pushing it
\* back.
release_idle_closed(conn) == idle

\* Drop for PooledConnection: the connection is pushed back.
release_idle(conn) == Append(idle, conn)

----------------------------------------------------------------------------
(* extract_table: metadata and dispatch. *)

\* load_metadata: self.pool.acquire()?
load_metadata_acquire(connect_ok) ==
    /\ pc = "start"
    /\ IF acquire_succeeds(connect_ok)
       THEN /\ meta_conn' = acquire_conn
            /\ idle' = acquire_idle
            /\ created' = acquire_created
            /\ pc' = "meta"
            /\ UNCHANGED result
       ELSE /\ pc' = "done"
            /\ result' = ErrResult
            /\ UNCHANGED <<meta_conn, idle, created>>
    /\ UNCHANGED <<build_vars, cfg_vars, fetch_conn, part_conn, meta, batch_size, total_rows,
                   reported, partition_files, progress, merge_failed, files,
                   part_vars, seq_vars>>

\* load_metadata: detect_pk, load_columns and the COUNT(*) query; the lease
\* is dropped when the function returns, with its value or with the error
\* of a failed query.
load_metadata_queries(query_ok) ==
    /\ pc = "meta"
    /\ idle' = release_idle(meta_conn)
    /\ meta_conn' = 0
    /\ IF query_ok
       THEN /\ meta' = load_metadata(table)
            /\ pc' = "loaded"
            /\ UNCHANGED result
       ELSE /\ pc' = "done"
            /\ result' = ErrResult
            /\ UNCHANGED meta
    /\ UNCHANGED <<build_vars, cfg_vars, created, fetch_conn, part_conn, batch_size, total_rows,
                   reported, partition_files, progress, merge_failed, files,
                   part_vars, seq_vars>>

\* Mutant: the empty-table check is missing.
is_empty_table_never(m) == FALSE

\* if meta.row_count == 0
is_empty_table(m) == m.row_count = 0

\* extract_table after load_metadata: the empty-table return, or the start
\* of extract_parallel_pk (batch size, workers handed to the thread pool) or
\* of extract_sequential (batch size, queues, both threads spawned).
extract_table_dispatch ==
    /\ pc = "loaded"
    /\ IF is_empty_table(meta)
       THEN /\ pc' = "done"
            /\ result' = OkResult(0)
            /\ UNCHANGED <<batch_size, wpc, fetcher, swriter>>
       ELSE /\ batch_size' = calculate_batch_size(meta.row_count, meta.has_blob)
            /\ UNCHANGED result
            /\ IF meta.pk.some
               THEN /\ pc' = "par_run"
                    /\ wpc' = [i \in Workers |-> "start"]
                    /\ UNCHANGED <<fetcher, swriter>>
               ELSE /\ pc' = "seq_recv"
                    /\ fetcher' = [fetcher EXCEPT !.pc = "start"]
                    /\ swriter' = "create"
                    /\ UNCHANGED wpc
    /\ UNCHANGED <<build_vars, cfg_vars, pool_vars, meta, total_rows, reported, partition_files,
                   progress, merge_failed, files, wrange, wrows, wchunk, wq, wwriter, wres,
                   wfailed, fetch_q, batch_q, held>>

----------------------------------------------------------------------------
(* extract_partition: one partition worker and its writer thread. *)

\* The writer thread of worker i has returned (its batch_rx is dropped).
wwriter_ended(i) == wwriter[i] \in {"ok", "err"}

\* extract_partition has returned (its batch_tx is dropped).
wsender_dropped(i) == wpc[i] = "done"

\* The partition workers a thread of the pool is running.
running == {j \in Workers : wpc[j] \in {"query", "chunks", "sentinel", "join"}}

\* A pool thread takes up worker i: let mut conn = pool.acquire()?;
partition_acquire(i, connect_ok) ==
    /\ pc = "par_run"
    /\ wpc[i] = "start"
    /\ Cardinality(running) < threads
    /\ IF acquire_succeeds(connect_ok)
       THEN /\ part_conn' = [part_conn EXCEPT ![i] = acquire_conn]
            /\ idle' = acquire_idle
            /\ created' = acquire_created
            /\ wpc' = [wpc EXCEPT ![i] = "query"]
            /\ UNCHANGED <<wres, wfailed>>
       ELSE /\ wpc' = [wpc EXCEPT ![i] = "done"]
            /\ wres' = [wres EXCEPT ![i] = ErrResult]
            /\ wfailed' = [wfailed EXCEPT ![i] = TRUE]
            /\ UNCHANGED <<part_conn, idle, created>>
    /\ UNCHANGED <<build_vars, cfg_vars, meta_conn, fetch_conn, orch_vars, files, wrange, wrows,
                   wchunk, wq, wwriter, seq_vars>>

\* The range query of worker i; with no rows, or on a query error, the
\* function returns (and drops its lease); otherwise the writer thread is
\* spawned.
partition_query(i, query_ok) ==
    /\ wpc[i] = "query"
    /\ LET s == start_pk(meta.pk, parallelism, i)
           e == end_pk(meta.pk, parallelism, i)
           n == RowsInRange(table, s, e)
       IN /\ wrange' = [wrange EXCEPT ![i] = <<s, e>>]
          /\ wfailed' = [wfailed EXCEPT ![i] = ~query_ok]
          /\ IF query_ok /\ n > 0
             THEN /\ wrows' = [wrows EXCEPT ![i] = n]
                  /\ wpc' = [wpc EXCEPT ![i] = "chunks"]
                  /\ wwriter' = [wwriter EXCEPT ![i] = "create"]
                  /\ UNCHANGED <<wres, part_conn, idle>>
             ELSE /\ wres' = [wres EXCEPT ![i] = IF query_ok THEN OkResult(0) ELSE ErrResult]
                  /\ wpc' = [wpc EXCEPT ![i] = "done"]
                  /\ idle' = release_idle(part_conn[i])
                  /\ part_conn' = [part_conn EXCEPT ![i] = 0]
                  /\ UNCHANGED <<wrows, wwriter>>
    /\ UNCHANGED <<build_vars, cfg_vars, created, meta_conn, fetch_conn, orch_vars, files, wchunk,
                   wq, seq_vars>>

\* One iteration of "for chunk in rows.chunks(batch_size)": build the batch
\* (an error returns from the function, dropping the sender, the join handle
\* and the lease) and send it (blocking while the queue is full; a send to
\* a writer that has returned fails and breaks the loop).
partition_send_chunk(i, build_ok) ==
    /\ wpc[i] = "chunks"
    /\ LET c == wchunk[i]
           n == ChunkLen(wrows[i], batch_size, c)
           last == c + 1 = NumChunks(wrows[i], batch_size)
       IN IF ~build_ok
          THEN /\ wpc' = [wpc EXCEPT ![i] = "done"]
               /\ wres' = [wres EXCEPT ![i] = ErrResult]
               /\ wfailed' = [wfailed EXCEPT ![i] = TRUE]
               /\ idle' = release_idle(part_conn[i])
               /\ part_conn' = [part_conn EXCEPT ![i] = 0]
               /\ UNCHANGED <<wq, wchunk>>
          ELSE IF wwriter_ended(i)
          THEN /\ wpc' = [wpc EXCEPT ![i] = "sentinel"]
               /\ UNCHANGED <<wres, wfailed, idle, part_conn, wq, wchunk>>
          ELSE /\ Len(wq[i]) < PartQueueCap
               /\ wq' = [wq EXCEPT ![i] = Append(@, SomeMsg(n, c * batch_size))]
               /\ wchunk' = [wchunk EXCEPT ![i] = c + 1]
               /\ wpc' = [wpc EXCEPT ![i] = IF last THEN "sentinel" ELSE "chunks"]
               /\ UNCHANGED <<wres, wfailed, idle, part_conn>>
    /\ UNCHANGED <<build_vars, cfg_vars, created, meta_conn, fetch_conn, orch_vars, files, wrange,
                   wrows, wwriter, seq_vars>>

\* Mutant: the send of the sentinel waits for room in the queue even when
\* the writer thread has returned.
partition_send_sentinel_waiting(i) ==
    /\ wpc[i] = "sentinel"
    /\ Len(wq[i]) < PartQueueCap
    /\ wq' = [wq EXCEPT ![i] = Append(@, NoneMsg)]
    /\ wpc' = [wpc EXCEPT ![i] = "join"]
    /\ UNCHANGED <<build_vars, cfg_vars, pool_vars, orch_vars, files, wrange, wrows, wchunk,
                   wwriter, wres, wfailed, seq_vars>>

\* let _ = batch_tx.send(None);
partition_send_sentinel(i) ==
    /\ wpc[i] = "sentinel"
    /\ IF wwriter_ended(i)
       THEN UNCHANGED wq
       ELSE /\ Len(wq[i]) < PartQueueCap
            /\ wq' = [wq EXCEPT ![i] = Append(@, NoneMsg)]
    /\ wpc' = [wpc EXCEPT ![i] = "join"]
    /\ UNCHANGED <<build_vars, cfg_vars, pool_vars, orch_vars, files, wrange, wrows, wchunk,
                   wwriter, wres, wfailed, seq_vars>>

\* Mutant: the outcome of the writer thread is ignored.
join_result_ignored(outcome, rows) == OkResult(rows)

\* What "writer_handle.join().map_err(..)??; Ok(..rows)" returns when the
\* writer thread returned `outcome` ("ok", or "err" for an error or a panic).
join_result(outcome, rows) == IF outcome = "ok" THEN OkResult(rows) ELSE ErrResult

\* writer_handle.join().map_err(..)??; Ok(PartitionResult { rows: total_rows })
partition_join(i) ==
    /\ wpc[i] = "join"
    /\ wwriter_ended(i)
    /\ wres' = [wres EXCEPT ![i] = join_result(wwriter[i], wrows[i])]
    /\ wpc' = [wpc EXCEPT ![i] = "done"]
    /\ idle' = release_idle(part_conn[i])
    /\ part_conn' = [part_conn EXCEPT ![i] = 0]
    /\ UNCHANGED <<build_vars, cfg_vars, created, meta_conn, fetch_conn, orch_vars, files, wrange,
                   wrows, wchunk, wq, wwriter, wfailed, seq_vars>>

\* Writer thread: File::create (step = "no_file" when it fails) and
\* ArrowWriter::try_new (step = "no_writer" when it fails).
partition_writer_create(i, step) ==
    /\ wwriter[i] = "create"
    /\ wwriter' = [wwriter EXCEPT ![i] = IF step = "ok" THEN "loop" ELSE "err"]
    /\ wfailed' = [wfailed EXCEPT ![i] = @ \/ step # "ok"]
    /\ files' = IF step = "no_file" THEN files
                ELSE [files EXCEPT !.part[i] = NewFile]
    /\ UNCHANGED <<build_vars, cfg_vars, pool_vars, orch_vars, wpc, wrange, wrows, wchunk, wq,
                   wres, seq_vars>>

\* writer.write(&batch) of the writer thread of worker i: the batch goes to
\* the file the thread created (nowhere once that file has been removed).
write_batch_part(i, b) ==
    IF files.part[i].exists
    THEN [files EXCEPT !.part[i].batches = Append(@, b)]
    ELSE files

\* Writer thread: one batch_rx.recv() and what follows it: a batch is
\* written (or the write fails and the thread returns the error), the
\* sentinel or a disconnected empty queue ends the loop.
partition_writer_recv(i, write_ok) ==
    /\ wwriter[i] = "loop"
    /\ IF wq[i] # <<>>
       THEN LET m == Head(wq[i])
            IN /\ wq' = [wq EXCEPT ![i] = Tail(@)]
               /\ IF ~m.some
                  THEN /\ wwriter' = [wwriter EXCEPT ![i] = "close"]
                       /\ UNCHANGED <<files, wfailed>>
                  ELSE IF write_ok
                  THEN /\ files' = write_batch_part(i, FileBatch(i, m.from, m.rows))
                       /\ UNCHANGED <<wwriter, wfailed>>
                  ELSE /\ wwriter' = [wwriter EXCEPT ![i] = "err"]
                       /\ wfailed' = [wfailed EXCEPT ![i] = TRUE]
                       /\ UNCHANGED files
       ELSE /\ wsender_dropped(i)
            /\ wwriter' = [wwriter EXCEPT ![i] = "close"]
            /\ UNCHANGED <<wq, files, wfailed>>
    /\ UNCHANGED <<build_vars, cfg_vars, pool_vars, orch_vars, wpc, wrange, wrows, wchunk, wres,
                   seq_vars>>

\* Writer thread: writer.close()?
partition_writer_close(i, close_ok) ==
    /\ wwriter[i] = "close"
    /\ wwriter' = [wwriter EXCEPT ![i] = IF close_ok THEN "ok" ELSE "err"]
    /\ wfailed' = [wfailed EXCEPT ![i] = @ \/ ~close_ok]
    /\ files' = IF close_ok /\ files.part[i].exists
                THEN [files EXCEPT !.part[i].closed = TRUE]
                ELSE files
    /\ UNCHANGED <<build_vars, cfg_vars, pool_vars, orch_vars, wpc, wrange, wrows, wchunk, wq,
                   wres, seq_vars>>

----------------------------------------------------------------------------
(* extract_parallel_pk: collecting the results, merge, cleanup. *)

RECURSIVE SumOkRows(_)
\* total_rows += part_result.rows over the Ok results of the partitions in S
SumOkRows(S) ==
    IF S = {} THEN 0
    ELSE LET i == CHOOSE x \in S : TRUE
         IN (IF wres[i].kind = "ok" THEN wres[i].rows ELSE 0) + SumOkRows(S \ {i})

RECURSIVE PushedFiles_every_ok(_)
\* Mutant: the file of every Ok result is pushed, also for zero rows.
PushedFiles_every_ok(n) ==
    IF n = 0 THEN <<>>
    ELSE LET i == n - 1
         IN IF wres[i].kind = "ok"
            THEN Append(PushedFiles_every_ok(i), i)
            ELSE PushedFiles_every_ok(i)

RECURSIVE PushedFiles(_)
\* partition_files after the results 0..n-1 were visited in index order
PushedFiles(n) ==
    IF n = 0 THEN <<>>
    ELSE LET i == n - 1
         IN IF wres[i].kind = "ok" /\ wres[i].rows > 0
            THEN Append(PushedFiles(i), i)
            ELSE PushedFiles(i)

\* The "Collect results" loop; par_iter's collect has returned, that is
\* every extract_partition call has returned.
par_collect ==
    /\ pc = "par_run"
    /\ \A i \in Workers : wpc[i] = "done"
    /\ total_rows' = SumOkRows(Workers)
    /\ partition_files' = PushedFiles(parallelism)
    /\ reported' = {i \in Workers : wres[i].kind = "err"}
    /\ pc' = "par_merge"
    /\ UNCHANGED <<build_vars, cfg_vars, pool_vars, meta, batch_size, result, progress,
                   merge_failed, files, part_vars, seq_vars>>

\* The record batches a ParquetRecordBatchReader with_batch_size(100_000)
\* yields for a file holding consecutive rows of one source.
ReadBatches(f) ==
    LET total == FileRows(f)
    IN [k \in 1..CeilDiv(total, MergeBatchRows) |->
          FileBatch(f.batches[1].src,
                    f.batches[1].from + (k - 1) * MergeBatchRows,
                    Min(MergeBatchRows, total - (k - 1) * MergeBatchRows))]

RECURSIVE MergedBatches_reversed(_)
\* Mutant: the input files are read last to first.
MergedBatches_reversed(inputs) ==
    IF inputs = <<>> THEN <<>>
    ELSE MergedBatches_reversed(Tail(inputs)) \o ReadBatches(files.part[Head(inputs)])

RECURSIVE MergedBatches(_)
\* The batches merge_parquet_files writes for the input files `inputs`
\* (partition indices), in input order.
MergedBatches(inputs) ==
    IF inputs = <<>> THEN <<>>
    ELSE ReadBatches(files.part[Head(inputs)]) \o MergedBatches(Tail(inputs))

\* Mutant: the first input file is left out of a merge of several files.
merge_parquet_files_skip_first(inputs, out) ==
    IF inputs = <<>> THEN out
    ELSE IF Len(inputs) = 1 THEN files.part[inputs[1]]
    ELSE [exists |-> TRUE, batches |-> MergedBatches(Tail(inputs)), closed |-> TRUE]

\* Mutant: a merge of no file creates an empty output file.
merge_parquet_files_creating(inputs, out) ==
    IF inputs = <<>> THEN [exists |-> TRUE, batches |-> <<>>, closed |-> TRUE]
    ELSE IF Len(inputs) = 1 THEN files.part[inputs[1]]
    ELSE [exists |-> TRUE, batches |-> MergedBatches(inputs), closed |-> TRUE]

\* The output file after merge_parquet_files(input_files, output_path)
\* returned Ok.
merge_parquet_files(inputs, out) ==
    IF inputs = <<>> THEN out
    ELSE IF Len(inputs) = 1 THEN files.part[inputs[1]]
    ELSE [exists |-> TRUE, batches |-> MergedBatches(inputs), closed |-> TRUE]

\* merge_parquet_files(&partition_files, output_path)?: an error returns
\* from extract_parallel_pk at once ("fail_open": before the output file is
\* created; "fail_partial": after).
par_merge(outcome) ==
    /\ pc = "par_merge"
    /\ IF outcome = "ok" \/ partition_files = <<>>
       THEN /\ files' = [files EXCEPT !.out = merge_parquet_files(partition_files, @)]
            /\ pc' = "par_cleanup"
            /\ UNCHANGED <<result, merge_failed>>
       ELSE /\ files' = IF outcome = "fail_partial"
                        THEN [files EXCEPT !.out = NewFile]
                        ELSE files
            /\ pc' = "done"
            /\ result' = ErrResult
            /\ merge_failed' = TRUE
    /\ UNCHANGED <<build_vars, cfg_vars, pool_vars, meta, batch_size, total_rows, reported,
                   partition_files, progress, part_vars, seq_vars>>

\* "Cleanup temp files" and the Ok(ExtractionStats) return.
par_cleanup ==
    /\ pc = "par_cleanup"
    /\ files' = [files EXCEPT !.part = [i \in Workers |-> NoFile]]
    /\ result' = OkResult(total_rows)
    /\ pc' = "done"
    /\ UNCHANGED <<build_vars, cfg_vars, pool_vars, meta, batch_size, total_rows, reported,
                   partition_files, progress, merge_failed, part_vars, seq_vars>>

----------------------------------------------------------------------------
(* extract_sequential: fetch thread, orchestrator loop, writer thread. *)

\* extract_sequential has returned: fetch_rx and batch_tx are dropped.
orchestrator_returned == pc = "done"

\* The fetch thread has returned: fetch_tx is dropped.
fetcher_ended == fetcher.pc = "ended"

\* The sequential writer thread has returned: batch_rx is dropped.
swriter_ended == swriter \in {"ok", "err"}

\* Fetch thread: pool_clone.acquire(); an error returns from the thread.
fetcher_acquire(connect_ok) ==
    /\ fetcher.pc = "start"
    /\ IF acquire_succeeds(connect_ok)
       THEN /\ fetch_conn' = acquire_conn
            /\ idle' = acquire_idle
            /\ created' = acquire_created
            /\ fetcher' = [fetcher EXCEPT !.pc = "query"]
       ELSE /\ fetcher' = [fetcher EXCEPT !.pc = "ended", !.failed = "acquire"]
            /\ UNCHANGED <<fetch_conn, idle, created>>
    /\ UNCHANGED <<build_vars, cfg_vars, meta_conn, part_conn, orch_vars, files, part_vars,
                   fetch_q, batch_q, held, swriter>>

\* format!("{} ROWS {} TO {}", query, offset + 1, offset + page_size)
page_first(offset) == offset + 1

\* Mutant: the last row of the page is excluded.
page_last_exclusive(offset, page_size) == offset + page_size - 1

page_last(offset, page_size) == offset + page_size

\* Fetch thread: the page query "ROWS offset+1 TO offset+page_size".
fetcher_query(query_ok) ==
    /\ fetcher.pc = "query"
    /\ LET n == RowsInPage(table, page_first(fetcher.offset),
                            page_last(fetcher.offset, batch_size))
       IN fetcher' = IF query_ok /\ n > 0
                     THEN [fetcher EXCEPT !.pc = "send", !.page = n]
                     ELSE [fetcher EXCEPT !.pc = "send_none",
                                          !.failed = IF query_ok THEN "no" ELSE "query"]
    /\ UNCHANGED <<build_vars, cfg_vars, pool_vars, orch_vars, files, part_vars, fetch_q,
                   batch_q, held, swriter>>

\* Mutant: the offset stays where it is after a page was sent.
fetcher_send_not_advancing ==
    /\ fetcher.pc = "send"
    /\ IF orchestrator_returned
       THEN /\ fetcher' = [fetcher EXCEPT !.pc = "ended", !.page = 0]
            /\ idle' = release_idle(fetch_conn)
            /\ fetch_conn' = 0
            /\ UNCHANGED fetch_q
       ELSE /\ Len(fetch_q) < FetchQueueCap
            /\ fetch_q' = Append(fetch_q, SomeMsg(fetcher.page, fetcher.offset))
            /\ fetcher' = [fetcher EXCEPT !.pc = "query", !.page = 0]
            /\ UNCHANGED <<idle, fetch_conn>>
    /\ UNCHANGED <<build_vars, cfg_vars, created, meta_conn, part_conn, orch_vars, files,
                   part_vars, batch_q, held, swriter>>

\* Fetch thread: fetch_tx.send(Some(rows)), blocking while the queue is
\* full; offset += page_size.  A failed send (receiver dropped) ends the
\* thread, which drops its lease.
fetcher_send ==
    /\ fetcher.pc = "send"
    /\ IF orchestrator_returned
       THEN /\ fetcher' = [fetcher EXCEPT !.pc = "ended", !.page = 0]
            /\ idle' = release_idle(fetch_conn)
            /\ fetch_conn' = 0
            /\ UNCHANGED fetch_q
       ELSE /\ Len(fetch_q) < FetchQueueCap
            /\ fetch_q' = Append(fetch_q, SomeMsg(fetcher.page, fetcher.offset))
            /\ fetcher' = [fetcher EXCEPT !.pc = "query", !.page = 0,
                                           !.offset = @ + batch_size]
            /\ UNCHANGED <<idle, fetch_conn>>
    /\ UNCHANGED <<build_vars, cfg_vars, created, meta_conn, part_conn, orch_vars, files,
                   part_vars, batch_q, held, swriter>>

\* Fetch thread: let _ = fetch_tx.send(None); break; the thread ends and
\* drops its lease.
fetcher_send_none ==
    /\ fetcher.pc = "send_none"
    /\ IF orchestrator_returned
       THEN UNCHANGED fetch_q
       ELSE /\ Len(fetch_q) < FetchQueueCap
            /\ fetch_q' = Append(fetch_q, NoneMsg)
    /\ fetcher' = [fetcher EXCEPT !.pc = "ended"]
    /\ idle' = release_idle(fetch_conn)
    /\ fetch_conn' = 0
    /\ UNCHANGED <<build_vars, cfg_vars, created, meta_conn, part_conn, orch_vars, files,
                   part_vars, batch_q, held, swriter>>

\* Orchestrator: "while let Ok(Some(rows)) = fetch_rx.recv()" and
\* build_arrow_batch(meta, &rows)?: a page is received and built (a build
\* error returns from extract_sequential), or the sentinel or a
\* disconnected empty queue ends the loop.
seq_recv(build_ok) ==
    /\ pc = "seq_recv"
    /\ IF fetch_q # <<>>
       THEN LET m == Head(fetch_q)
            IN /\ fetch_q' = Tail(fetch_q)
               /\ IF ~m.some
                  THEN /\ pc' = "seq_sentinel"
                       /\ UNCHANGED <<held, result>>
                  ELSE IF build_ok
                  THEN /\ held' = m
                       /\ pc' = "seq_send"
                       /\ UNCHANGED result
                  ELSE /\ pc' = "done"
                       /\ result' = ErrResult
                       /\ UNCHANGED held
       ELSE /\ fetcher_ended
            /\ pc' = "seq_sentinel"
            /\ UNCHANGED <<fetch_q, held, result>>
    /\ UNCHANGED <<build_vars, cfg_vars, pool_vars, meta, batch_size, total_rows, reported,
                   partition_files, progress, merge_failed, files, part_vars, fetcher,
                   batch_q,
                   swriter>>

\* Orchestrator: batch_tx.send(Some(batch)) (a failed send breaks the
\* loop), total_rows += row_count, and the progress report.
seq_send ==
    /\ pc = "seq_send"
    /\ held' = NoneMsg
    /\ IF swriter_ended
       THEN /\ pc' = "seq_sentinel"
            /\ UNCHANGED <<batch_q, total_rows, progress>>
       ELSE /\ Len(batch_q) < BatchQueueCap
            /\ batch_q' = Append(batch_q, held)
            /\ total_rows' = total_rows + held.rows
            /\ progress' = IF (total_rows + held.rows) % ProgressEvery = 0
                           THEN Append(progress, total_rows + held.rows)
                           ELSE progress
            /\ pc' = "seq_recv"
    /\ UNCHANGED <<build_vars, cfg_vars, pool_vars, meta, batch_size, result, reported,
                   partition_files, merge_failed, files, part_vars, fetcher, fetch_q,
                   swriter>>

\* Mutant: the orchestrator goes on to the joins without sending the
\* write sentinel.
seq_sentinel_unsent ==
    /\ pc = "seq_sentinel"
    /\ pc' = "seq_join_fetcher"
    /\ UNCHANGED <<build_vars, cfg_vars, pool_vars, meta, batch_size, total_rows, result,
                   reported, partition_files, progress, merge_failed, files, part_vars,
                   seq_vars>>

\* Orchestrator: let _ = batch_tx.send(None);
seq_sentinel ==
    /\ pc = "seq_sentinel"
    /\ IF swriter_ended
       THEN UNCHANGED batch_q
       ELSE /\ Len(batch_q) < BatchQueueCap
            /\ batch_q' = Append(batch_q, NoneMsg)
    /\ pc' = "seq_join_fetcher"
    /\ UNCHANGED <<build_vars, cfg_vars, pool_vars, meta, batch_size, total_rows, result,
                   reported, partition_files, progress, merge_failed, files, part_vars,
                   fetcher,
                   fetch_q, held, swriter>>

\* Orchestrator: let _ = fetcher.join();
seq_join_fetcher ==
    /\ pc = "seq_join_fetcher"
    /\ fetcher_ended
    /\ pc' = "seq_join_writer"
    /\ UNCHANGED <<build_vars, cfg_vars, pool_vars, meta, batch_size, total_rows, result,
                   reported, partition_files, progress, merge_failed, files,
                   part_vars, seq_vars>>

\* Orchestrator: writer_handle.join().map_err(..)??; Ok(ExtractionStats)
seq_join_writer ==
    /\ pc = "seq_join_writer"
    /\ swriter_ended
    /\ result' = join_result(swriter, total_rows)
    /\ pc' = "done"
    /\ UNCHANGED <<build_vars, cfg_vars, pool_vars, meta, batch_size, total_rows, reported,
                   partition_files, progress, merge_failed, files, part_vars, seq_vars>>

\* Writer thread: File::create (step = "no_file" when it fails) and
\* ArrowWriter::try_new (step = "no_writer" when it fails).
swriter_create(step) ==
    /\ swriter = "create"
    /\ swriter' = IF step = "ok" THEN "loop" ELSE "err"
    /\ files' = IF step = "no_file" THEN files ELSE [files EXCEPT !.out = NewFile]
    /\ UNCHANGED <<build_vars, cfg_vars, pool_vars, orch_vars, part_vars, fetcher, fetch_q,
                   batch_q, held>>

\* Writer thread: one batch_rx.recv() and what follows it.
swriter_recv(write_ok) ==
    /\ swriter = "loop"
    /\ IF batch_q # <<>>
       THEN LET m == Head(batch_q)
            IN /\ batch_q' = Tail(batch_q)
               /\ IF ~m.some
                  THEN /\ swriter' = "close"
                       /\ UNCHANGED files
                  ELSE IF write_ok
                  THEN /\ files' = [files EXCEPT !.out.batches =
                                        Append(@, FileBatch(0, m.from, m.rows))]
                       /\ UNCHANGED swriter
                  ELSE /\ swriter' = "err"
                       /\ UNCHANGED files
       ELSE /\ orchestrator_returned
            /\ swriter' = "close"
            /\ UNCHANGED <<batch_q, files>>
    /\ UNCHANGED <<build_vars, cfg_vars, pool_vars, orch_vars, part_vars, fetcher, fetch_q, held>>

\* Writer thread: writer.close()?
swriter_close(close_ok) ==
    /\ swriter = "close"
    /\ swriter' = IF close_ok THEN "ok" ELSE "err"
    /\ files' = IF close_ok THEN [files EXCEPT !.out.closed = TRUE] ELSE files
    /\ UNCHANGED <<build_vars, cfg_vars, pool_vars, orch_vars, part_vars, fetcher, fetch_q,
                   batch_q, held>>

----------------------------------------------------------------------------
(* Specifications. *)

WriterSteps == {"ok", "no_file", "no_writer"}
MergeOutcomes == {"ok", "fail_open", "fail_partial"}

Next ==
    \/ \E ok \in BOOLEAN : load_metadata_acquire(ok)
    \/ \E ok \in BOOLEAN : load_metadata_queries(ok)
    \/ extract_table_dispatch
    \/ \E i \in Workers, ok \in BOOLEAN : partition_acquire(i, ok)
    \/ \E i \in Workers, ok \in BOOLEAN : partition_query(i, ok)
    \/ \E i \in Workers, ok \in BOOLEAN : partition_send_chunk(i, ok)
    \/ \E i \in Workers : partition_send_sentinel(i)
    \/ \E i \in Workers : partition_join(i)
    \/ \E i \in Workers, step \in WriterSteps : partition_writer_create(i, step)
    \/ \E i \in Workers, ok \in BOOLEAN : partition_writer_recv(i, ok)
    \/ \E i \in Workers, ok \in BOOLEAN : partition_writer_close(i, ok)
    \/ par_collect
    \/ \E outcome \in MergeOutcomes : par_merge(outcome)
    \/ par_cleanup
    \/ \E ok \in BOOLEAN : fetcher_acquire(ok)
    \/ \E ok \in BOOLEAN : fetcher_query(ok)
    \/ fetcher_send
    \/ fetcher_send_none
    \/ \E ok \in BOOLEAN : seq_recv(ok)
    \/ seq_send
    \/ seq_sentinel
    \/ seq_join_fetcher
    \/ seq_join_writer
    \/ \E step \in WriterSteps : swriter_create(step)
    \/ \E ok \in BOOLEAN : swriter_recv(ok)
    \/ \E ok \in BOOLEAN : swriter_close(ok)

Spec == Init /\ [][Next]_vars

\* The planning prefix of a run: metadata, dispatch, and every partition
\* worker up to its range query, over a wide set of tables.
NextPlan ==
    \/ \E ok \in BOOLEAN : load_metadata_acquire(ok)
    \/ \E ok \in BOOLEAN : load_metadata_queries(ok)
    \/ extract_table_dispatch
    \/ \E i \in Workers, ok \in BOOLEAN : partition_acquire(i, ok)
    \/ \E i \in Workers, ok \in BOOLEAN : partition_query(i, ok)

SpecPlan == InitPlan /\ [][NextPlan]_vars

\* Construction of the extractor, then extract_table up to the dispatch.
NextNew ==
    \/ \E k \in 0..pool_size : Extractor_new(k)
    \/ \E ok \in BOOLEAN : load_metadata_acquire(ok)
    \/ \E ok \in BOOLEAN : load_metadata_queries(ok)
    \/ extract_table_dispatch

SpecNew == InitNew /\ [][NextNew]_vars

\* The tables of the failure-free sequential runs: from one page to more
\* pages than both queues hold together.
SeqLiveConfigs ==
    {Cfg(HeapTable(r, b, FALSE, <<>>), 1, p, 1) :
        r \in SeqRowCounts \cup {12000000}, b \in BOOLEAN, p \in 0..MaxPool}

InitSeqLive == InitWith(SeqLiveConfigs)

\* The steps of the fetch thread when no connection attempt or query fails.
FetcherStepsOk ==
    \/ fetcher_acquire(TRUE)
    \/ fetcher_query(TRUE)
    \/ fetcher_send
    \/ fetcher_send_none

\* The steps of the thread that called extract_table when nothing fails.
OrchestratorStepsOk ==
    \/ load_metadata_acquire(TRUE)
    \/ load_metadata_queries(TRUE)
    \/ extract_table_dispatch
    \/ seq_recv(TRUE)
    \/ seq_send
    \/ seq_sentinel
    \/ seq_join_fetcher
    \/ seq_join_writer

\* The steps of the sequential writer thread when no file operation fails.
SeqWriterStepsOk ==
    \/ swriter_create("ok")
    \/ swriter_recv(TRUE)
    \/ swriter_close(TRUE)

NextSeqLive ==
    \/ load_metadata_acquire(TRUE)
    \/ load_metadata_queries(TRUE)
    \/ extract_table_dispatch
    \/ fetcher_acquire(TRUE)
    \/ fetcher_query(TRUE)
    \/ fetcher_send
    \/ fetcher_send_none
    \/ seq_recv(TRUE)
    \/ seq_send
    \/ seq_sentinel
    \/ seq_join_fetcher
    \/ seq_join_writer
    \/ swriter_create("ok")
    \/ swriter_recv(TRUE)
    \/ swriter_close(TRUE)

\* The failure-free sequential runs; every thread that can take a step
\* eventually takes one (the threads are operating-system threads).
SpecSeqLive ==
    /\ InitSeqLive
    /\ [][NextSeqLive]_vars
    /\ WF_vars(FetcherStepsOk)
    /\ WF_vars(OrchestratorStepsOk)
    /\ WF_vars(SeqWriterStepsOk)

\* Keyed tables whose partitions have from one chunk to more chunks than
\* the handoff queue holds (3,000,000 rows in one partition: 6 chunks).
PartLiveConfigs ==
    {Cfg(PkTable(1, 1 + s, {}, FALSE), 2, p, 2) : s \in 0..MaxSpan, p \in 0..MaxPool}
    \cup {Cfg(PkTable(1, 3000000, {}, b), 1, MaxPool, 1) : b \in BOOLEAN}
    \cup {Cfg(PkTable(1, 1000000, {}, FALSE), 2, MaxPool, 2)}

InitPartLive == InitWith(PartLiveConfigs)

\* The steps of the pool thread that runs partition worker i; any of them
\* may fail.
PartitionSteps(i) ==
    /\ i \in Workers
    /\ \/ \E ok \in BOOLEAN : partition_acquire(i, ok)
       \/ \E ok \in BOOLEAN : partition_query(i, ok)
       \/ \E ok \in BOOLEAN : partition_send_chunk(i, ok)
       \/ partition_send_sentinel(i)
       \/ partition_join(i)

\* The steps of the writer thread of partition worker i; any of them may
\* fail.
PartitionWriterSteps(i) ==
    /\ i \in Workers
    /\ \/ \E step \in WriterSteps : partition_writer_create(i, step)
       \/ \E ok \in BOOLEAN : partition_writer_recv(i, ok)
       \/ \E ok \in BOOLEAN : partition_writer_close(i, ok)

\* extract_table up to the end of the parallel section of
\* extract_parallel_pk.
NextPartLive ==
    \/ load_metadata_acquire(TRUE)
    \/ load_metadata_queries(TRUE)
    \/ extract_table_dispatch
    \/ \E i \in Workers, ok \in BOOLEAN : partition_acquire(i, ok)
    \/ \E i \in Workers, ok \in BOOLEAN : partition_query(i, ok)
    \/ \E i \in Workers, ok \in BOOLEAN : partition_send_chunk(i, ok)
    \/ \E i \in Workers : partition_send_sentinel(i)
    \/ \E i \in Workers : partition_join(i)
    \/ \E i \in Workers, step \in WriterSteps : partition_writer_create(i, step)
    \/ \E i \in Workers, ok \in BOOLEAN : partition_writer_recv(i, ok)
    \/ \E i \in Workers, ok \in BOOLEAN : partition_writer_close(i, ok)

\* The partition workers with failures at any step; every thread that can
\* take a step eventually takes one.
SpecPartLive ==
    /\ InitPartLive
    /\ [][NextPartLive]_vars
    /\ WF_vars(load_metadata_acquire(TRUE) \/ load_metadata_queries(TRUE)
               \/ extract_table_dispatch)
    /\ \A i \in 0..(MaxParallelism - 1) :
        WF_vars(PartitionSteps(i)) /\ WF_vars(PartitionWriterSteps(i))

----------------------------------------------------------------------------
(* build_arrow_batch and build_column_array. *)

\* A cell of a fetched row (rsfbclient::SqlType): kind is the variant; an
\* Integer holds n; a Floating is NaN, beyond the i64 range on either side,
\* or the finite value n/10; a Text holds the characters s; a Boolean b.
\* "Other" is any variant the code does not name; "Missing" is what
\* row.cols.get(col_index) gives for a row with too few columns.
SqlCell(kind, cls, n, s, b) == [kind |-> kind, cls |-> cls, n |-> n, s |-> s, b |-> b]
IntegerCell(v) == SqlCell("Integer", "", v, <<>>, FALSE)
FloatingCell(tenths) == SqlCell("Floating", "finite", tenths, <<>>, FALSE)
SpecialFloatingCell(cls) == SqlCell("Floating", cls, 0, <<>>, FALSE)
TextCell(t) == SqlCell("Text", "", 0, t, FALSE)
BooleanCell(b) == SqlCell("Boolean", "", 0, <<>>, b)
NullCell == SqlCell("Null", "", 0, <<>>, FALSE)
OtherCell == SqlCell("Other", "", 0, <<>>, FALSE)
MissingCell == SqlCell("Missing", "", 0, <<>>, FALSE)

\* row.cols.get(col_index).map(|c| &c.value), columns counted from 1
CellAt(row, ci) == IF ci <= Len(row) THEN row[ci] ELSE MissingCell

\* An entry of an Arrow array: null, or a value of the array's type. An
\* i64 is n, or one of the two ends of the i64 range; an f64 is n/10 or a
\* special value; a string or binary value is the characters s.
Entry(null, tag, n, s) == [null |-> null, tag |-> tag, n |-> n, s |-> s]
NullEntry == Entry(TRUE, "null", 0, <<>>)

RECURSIVE TrimStart(_)
TrimStart(t) == IF t # <<>> /\ Head(t) = " " THEN TrimStart(Tail(t)) ELSE t

RECURSIVE TrimEnd(_)
TrimEnd(t) ==
    IF t # <<>> /\ t[Len(t)] = " " THEN TrimEnd(SubSeq(t, 1, Len(t) - 1)) ELSE t

\* str::trim
Trim(t) == TrimEnd(TrimStart(t))

\* Mutant: the cast rounds down instead of toward zero.
float_as_i64_floor(cell) ==
    IF cell.cls = "nan" THEN Entry(FALSE, "i64", 0, <<>>)
    ELSE IF cell.cls = "above" THEN Entry(FALSE, "i64::MAX", 0, <<>>)
    ELSE IF cell.cls = "below" THEN Entry(FALSE, "i64::MIN", 0, <<>>)
    ELSE Entry(FALSE, "i64", cell.n \div 10, <<>>)

\* "*v as i64" for an f64: rounds toward zero, saturates at the ends of the
\* i64 range, and gives 0 for NaN.
float_as_i64(cell) ==
    IF cell.cls = "nan" THEN Entry(FALSE, "i64", 0, <<>>)
    ELSE IF cell.cls = "above" THEN Entry(FALSE, "i64::MAX", 0, <<>>)
    ELSE IF cell.cls = "below" THEN Entry(FALSE, "i64::MIN", 0, <<>>)
    ELSE IF cell.n >= 0 THEN Entry(FALSE, "i64", cell.n \div 10, <<>>)
    ELSE Entry(FALSE, "i64", -((-cell.n) \div 10), <<>>)

\* What one iteration of the Int64 loop appends to the builder.
append_int64(cell) ==
    IF cell.kind = "Integer" THEN <<Entry(FALSE, "i64", cell.n, <<>>)>>
    ELSE IF cell.kind = "Floating" THEN <<float_as_i64(cell)>>
    ELSE <<NullEntry>>

\* What one iteration of the Float64 loop appends to the builder.
append_float64(cell) ==
    IF cell.kind = "Floating"
    THEN <<Entry(FALSE, IF cell.cls = "finite" THEN "f64" ELSE cell.cls, cell.n, <<>>)>>
    ELSE IF cell.kind = "Integer" THEN <<Entry(FALSE, "f64", cell.n * 10, <<>>)>>
    ELSE <<NullEntry>>

\* What one iteration of the Utf8 loop appends to the builder (a number is
\* kept as the number its to_string() prints).
append_utf8(is_text_blob, cell) ==
    IF cell.kind = "Text" THEN <<Entry(FALSE, "str", 0, Trim(cell.s))>>
    ELSE IF cell.kind = "Integer" THEN <<Entry(FALSE, "str of i64", cell.n, <<>>)>>
    ELSE IF cell.kind = "Floating"
    THEN <<Entry(FALSE, "str of f64", cell.n, <<cell.cls>>)>>
    ELSE IF cell.kind = "Boolean"
    THEN <<Entry(FALSE, "str", 0, IF cell.b THEN <<"t", "r", "u", "e">>
                                   ELSE <<"f", "a", "l", "s", "e">>)>>
    ELSE <<NullEntry>>

\* Mutant: a cell that is no text is skipped.
append_binary_skipping(cell) ==
    IF cell.kind = "Text" THEN <<Entry(FALSE, "bytes", 0, cell.s)>> ELSE <<>>

\* What one iteration of the Binary loop appends to the builder.
append_binary(cell) ==
    IF cell.kind = "Text" THEN <<Entry(FALSE, "bytes", 0, cell.s)>>
    ELSE <<NullEntry>>

RECURSIVE build_values(_, _, _)
\* "for row in rows { match .. }" of build_column_array
build_values(col_meta, rows, ci) ==
    IF rows = <<>> THEN <<>>
    ELSE LET cell == CellAt(Head(rows), ci)
             one == IF col_meta.data_type = "Int64" THEN append_int64(cell)
                    ELSE IF col_meta.data_type = "Float64" THEN append_float64(cell)
                    ELSE IF col_meta.data_type = "Utf8"
                    THEN append_utf8(col_meta.is_text_blob, cell)
                    ELSE IF col_meta.data_type = "Binary" THEN append_binary(cell)
                    ELSE <<NullEntry>>
         IN one \o build_values(col_meta, Tail(rows), ci)

\* build_column_array(meta, rows, col_index): an array of the column's type
\* (a string array in the fallback arm).
build_column_array(col_meta, rows, ci) ==
    [data_type |-> IF col_meta.data_type \in {"Int64", "Float64", "Utf8", "Binary"}
                   THEN col_meta.data_type ELSE "Utf8",
     values |-> build_values(col_meta, rows, ci)]

\* RecordBatch::try_new(schema, arrays) accepts the arrays: there is at
\* least one, they have one length, and each has the type of its field.
try_new_accepts(cols, arrays) ==
    /\ arrays # <<>>
    /\ \A ci \in 1..Len(arrays) :
        /\ Len(arrays[ci].values) = Len(arrays[1].values)
        /\ arrays[ci].data_type = cols[ci].data_type

\* build_arrow_batch(meta, rows)
build_arrow_batch(cols, rows) ==
    LET arrays == [ci \in 1..Len(cols) |-> build_column_array(cols[ci], rows, ci)]
    IN [ok |-> try_new_accepts(cols, arrays), arrays |-> arrays, returned |-> TRUE]

\* fb_to_arrow_type(fb_type, subtype) as a ColumnMetadata
fb_to_arrow_type(fb_type, subtype) ==
    IF fb_type \in {7, 8, 16} THEN [data_type |-> "Int64", is_text_blob |-> FALSE]
    ELSE IF fb_type \in {10, 27, 23} THEN [data_type |-> "Float64", is_text_blob |-> FALSE]
    ELSE IF fb_type = 12 /\ subtype = 1 THEN [data_type |-> "Utf8", is_text_blob |-> TRUE]
    ELSE IF fb_type = 12 THEN [data_type |-> "Binary", is_text_blob |-> FALSE]
    ELSE [data_type |-> "Utf8", is_text_blob |-> FALSE]

\* Field types and subtypes of the columns: every arm of fb_to_arrow_type.
BuildFieldTypes == {<<8, 0>>, <<27, 0>>, <<12, 1>>, <<12, 0>>, <<37, 0>>}

\* The column lists of the calls: every single column, and three pairs.
BuildColumns ==
    {<<fb_to_arrow_type(f[1], f[2])>> : f \in BuildFieldTypes}
    \cup {<<fb_to_arrow_type(8, 0), fb_to_arrow_type(12, 0)>>,
          <<fb_to_arrow_type(37, 0), fb_to_arrow_type(27, 0)>>,
          <<fb_to_arrow_type(12, 0), fb_to_arrow_type(16, 0)>>}

\* One cell of every variant.
VariantCells ==
    {IntegerCell(7), FloatingCell(-15), TextCell(<<" ", "a", " ">>),
     BooleanCell(TRUE), NullCell, OtherCell}

\* The cells of single-column rows: also floats on both sides of zero,
\* integral and not, and the floats no i64 can hold.
AllCells ==
    VariantCells
    \cup {IntegerCell(-3), FloatingCell(25), FloatingCell(-20), FloatingCell(-9)}
    \cup {SpecialFloatingCell(c) : c \in {"nan", "above", "below"}}

\* Rows of at most n cells (a row may lack its last columns).
BuildRowsOf(n) ==
    IF n = 1 THEN {<<>>} \cup {<<c>> : c \in AllCells}
    ELSE {<<>>} \cup {<<c>> : c \in VariantCells}
         \cup {<<c, d>> : c \in VariantCells, d \in VariantCells}

\* Sequences of at most BuildMaxRows rows.
BuildRowSeqs(n) == UNION {[1..k -> BuildRowsOf(n)] : k \in 0..BuildMaxRows}

\* A call of build_arrow_batch is about to be made; no extraction runs.
InitBuild ==
    /\ InitExtract({Cfg(EmptyPkTable, 1, 0, 1)})
    /\ idle = <<>>
    /\ created = 0
    /\ pc = "build"
    /\ \E cols \in BuildColumns :
        /\ bcols = cols
        /\ brows \in BuildRowSeqs(Len(cols))
    /\ bbatch = NoBatch

\* let batch = build_arrow_batch(meta, &rows)
build_arrow_batch_call ==
    /\ pc = "build"
    /\ ~bbatch.returned
    /\ bbatch' = build_arrow_batch(bcols, brows)
    /\ UNCHANGED <<bcols, brows, cfg_vars, pool_vars, orch_vars, files, part_vars,
                   seq_vars>>

NextBuild == build_arrow_batch_call

SpecBuild == InitBuild /\ [][NextBuild]_vars

----------------------------------------------------------------------------
(* Properties. *)

\* extract_table took the range-partitioned path.
ParPath == meta.loaded /\ meta.row_count > 0 /\ meta.pk.some

\* extract_table took the sequential path.
SeqPath == meta.loaded /\ meta.row_count > 0 /\ ~meta.pk.some

\* Every partition worker has issued its range query.
AllQueried == \A i \in Workers : wrange[i] # <<>>

\* The keys of the planned range on which the workers' ranges are compared:
\* all of them for a short range; for a long one the keys at and next to
\* every range boundary (the ranges being intervals, a key of min..max that
\* is in no range, or in two, exists only if such a boundary key exists).
KeysOf(pk) ==
    IF pk.max - pk.min <= 64 THEN pk.min..pk.max
    ELSE {k \in {pk.min, pk.max} \cup
                UNION {{wrange[i][1] - 1, wrange[i][1], wrange[i][1] + 1,
                        wrange[i][2] - 1, wrange[i][2], wrange[i][2] + 1} :
                       i \in {j \in Workers : wrange[j] # <<>>}} :
            pk.min <= k /\ k <= pk.max}

RECURSIVE SumRows(_)
\* The rows the workers of S got from their queries.
SumRows(S) ==
    IF S = {} THEN 0
    ELSE LET i == CHOOSE x \in S : TRUE IN wrows[i] + SumRows(S \ {i})

\* C1: for a table whose COUNT(*) is zero, with or without a primary key,
\* no output file and no partition temp file is ever created, and once the
\* metadata is loaded extract_table returns success with rows_extracted = 0.
C1_EmptyTableSkipped ==
    table.rows = 0 =>
        /\ ~files.out.exists
        /\ \A i \in Workers : ~files.part[i].exists
        /\ (pc = "done" /\ meta.loaded) => result = OkResult(0)

C1_Witness ==
    /\ table.rows = 0
    /\ table.has_index
    /\ pc = "done"
    /\ result = OkResult(0)

\* C2: once every worker has issued its range query, every key of the
\* planned range min..max satisfies the range predicate of some worker, and
\* the upper bound of the last worker is max.
C2_RangesCoverKeys ==
    (ParPath /\ AllQueried) =>
        /\ \A k \in KeysOf(meta.pk) : \E i \in Workers : InQueryRange(k, wrange[i])
        /\ wrange[parallelism - 1][2] = meta.pk.max

C2_Witness ==
    /\ ParPath
    /\ AllQueried
    /\ parallelism >= 3
    /\ meta.pk.max - meta.pk.min = 1
    /\ meta.pk.min < 0

\* C3 (as claimed): for a table with a single integer key whose keys are
\* exactly min..max, when every partition worker succeeds the returned
\* rows_extracted and the rows of the merged output file equal the table's
\* row count.
C3_EveryRowOnce ==
    (/\ ParPath
     /\ Len(table.pk_types) = 1
     /\ table.gaps = {}
     /\ pc = "done"
     /\ result.kind = "ok"
     /\ \A i \in Workers : ~wfailed[i])
    => /\ result.rows = table.rows
       /\ FileRows(files.out) = table.rows

\* C4 (as claimed): no key of the planned range satisfies the range
\* predicates of two different workers.
C4_RangesDisjoint ==
    ParPath =>
        \A i, j \in Workers :
            (i # j /\ wrange[i] # <<>> /\ wrange[j] # <<>>) =>
                \A k \in KeysOf(meta.pk) :
                    ~(InQueryRange(k, wrange[i]) /\ InQueryRange(k, wrange[j]))

\* C5: in the partitioned path, once the results are collected every
\* worker has returned, a failure is reported for exactly the workers in
\* which a step failed, the row total is the sum over exactly the other
\* workers, and extract_table returns that total with success unless the
\* merge itself fails.
C5_FailureIsolation ==
    (ParPath /\ pc \in {"par_merge", "par_cleanup", "done"}) =>
        /\ \A i \in Workers : wpc[i] = "done" /\ wres[i].kind # "none"
        /\ reported = {i \in Workers : wfailed[i]}
        /\ total_rows = SumRows({i \in Workers : ~wfailed[i]})
        /\ pc = "done" => result = IF merge_failed THEN ErrResult
                                   ELSE OkResult(total_rows)

C5_Witness ==
    /\ ParPath
    /\ pc = "done"
    /\ result.kind = "ok"
    /\ result.rows > 0
    /\ \E i \in Workers : wfailed[i] /\ wrows[i] > 0
    /\ reported # {}

\* C6: whenever extract_table returns success, rows_extracted is the
\* number of rows held by the final output file, which is finalized if it
\* holds any row.
C6_RowsExtractedAreWritten ==
    (pc = "done" /\ result.kind = "ok") =>
        /\ result.rows = FileRows(files.out)
        /\ result.rows > 0 => files.out.exists /\ files.out.closed

C6_Witness ==
    /\ SeqPath
    /\ pc = "done"
    /\ result.kind = "ok"
    /\ Len(files.out.batches) >= 2
    /\ result.rows = table.rows
    /\ files.out.closed

\* C7 (as claimed): in the sequential path, when a page query of the fetch
\* thread has failed, extract_table returns an error.
C7_QueryFailureIsFatal ==
    (SeqPath /\ pc = "done" /\ fetcher.failed = "query") => result.kind = "err"

\* C8 (as claimed): in the sequential path, once the writer thread has
\* failed, extract_sequential either has returned, with an error, or can
\* still take a step: it never hangs.
C8_WriteFailureReturns ==
    (SeqPath /\ swriter = "err") =>
        IF pc = "done" THEN result.kind = "err" ELSE ENABLED Next

\* The output file of the sequential path for a table of r rows fetched in
\* pages of p rows ("ROWS k*p+1 TO (k+1)*p", k = 0, 1, ...).
PagedFile(r, p) ==
    [exists |-> TRUE,
     batches |-> [k \in 1..CeilDiv(r, p) |->
                    FileBatch(0, (k - 1) * p, Min(p, r - (k - 1) * p))],
     closed |-> TRUE]

\* Sizes of the batches of a file.
BatchSizes(f) == [b \in 1..Len(f.batches) |-> f.batches[b].rows]

\* The sequential path has returned success and no stage has failed.
SeqDoneNoFailure ==
    SeqPath /\ pc = "done" /\ result.kind = "ok" /\ fetcher.failed = "no"

\* C9 (as amended): with no failure, the sequential pipeline of a table of
\* R rows uses the page size P = calculate_batch_size(R, has_blob) and
\* writes one file with the ceil(R/P) pages ROWS k*P+1 TO (k+1)*P, all of P
\* rows except possibly the last, R rows in all.
C9_SequentialPages ==
    SeqDoneNoFailure =>
        /\ batch_size = calculate_batch_size(table.rows, table.has_blob)
        /\ files.out = PagedFile(table.rows, batch_size)
        /\ FileRows(files.out) = table.rows
        /\ result.rows = table.rows

C9_Witness ==
    /\ SeqDoneNoFailure
    /\ table.rows = 600000
    /\ BatchSizes(files.out) = <<500000, 100000>>

\* C9 (as claimed): with no failure, the sequential pipeline writes the
\* pages ROWS k*P+1 TO (k+1)*P of the table, and for a table of 600,000
\* rows these are three pages of 250,000, 250,000 and 100,000 rows.
C9_Scenario600k ==
    SeqDoneNoFailure =>
        /\ files.out = PagedFile(table.rows, batch_size)
        /\ table.rows = 600000 =>
               BatchSizes(files.out) = <<250000, 250000, 100000>>

\* C10: the batch size computed for a table is at least 100,000, is not
\* below that of any smaller table and not above that of any larger table
\* with the same has_blob, and is strictly smaller with has_blob than
\* without for the same row count.
C10_BatchSizeTiers ==
    batch_size # 0 =>
        /\ batch_size >= 100000
        /\ \A r \in PlanRowCounts :
            /\ r <= meta.row_count =>
                   calculate_batch_size(r, meta.has_blob) <= batch_size
            /\ r >= meta.row_count =>
                   calculate_batch_size(r, meta.has_blob) >= batch_size
        /\ meta.has_blob => batch_size < calculate_batch_size(meta.row_count, FALSE)
        /\ ~meta.has_blob => calculate_batch_size(meta.row_count, TRUE) < batch_size
        /\ \A r \in PlanRowCounts :
            /\ calculate_batch_size(r, TRUE) >= 100000
            /\ calculate_batch_size(r, TRUE) < calculate_batch_size(r, FALSE)

C10_Witness ==
    /\ meta.has_blob
    /\ meta.row_count = 49999999
    /\ batch_size = 500000

RECURSIVE RowRuns(_)
\* The row sequence held by a sequence of batches, as maximal runs of
\* consecutive rows of one source: adjacent batches that continue each other
\* are joined, so that the batch boundaries do not matter.
RowRuns(bs) ==
    IF Len(bs) <= 1 THEN bs
    ELSE LET h == Head(bs)
             rest == RowRuns(Tail(bs))
         IN IF rest[1].src = h.src /\ rest[1].from = h.from + h.rows
            THEN <<FileBatch(h.src, h.from, h.rows + rest[1].rows)>> \o Tail(rest)
            ELSE <<h>> \o rest

RECURSIVE ConcatRuns(_)
\* The row sequences of the partition files `inputs`, one after the other.
ConcatRuns(inputs) ==
    IF inputs = <<>> THEN <<>>
    ELSE RowRuns(files.part[Head(inputs)].batches) \o ConcatRuns(Tail(inputs))

RECURSIVE SumFileRows(_)
\* The rows held by the partition files `inputs`.
SumFileRows(inputs) ==
    IF inputs = <<>> THEN 0
    ELSE FileRows(files.part[Head(inputs)]) + SumFileRows(Tail(inputs))

\* C11: when merge_parquet_files has returned Ok for K >= 1 partition
\* files, the row sequence of the output file is the concatenation of the
\* row sequences of the inputs in input order, its row count is the sum of
\* theirs, and for K = 1 the output file equals the single input file.
C11_MergeConcatenates ==
    (ParPath /\ pc = "par_cleanup" /\ partition_files # <<>>) =>
        /\ files.out.exists /\ files.out.closed
        /\ RowRuns(files.out.batches) = ConcatRuns(partition_files)
        /\ FileRows(files.out) = SumFileRows(partition_files)
        /\ Len(partition_files) = 1 => files.out = files.part[partition_files[1]]

C11_Witness ==
    /\ ParPath
    /\ pc = "par_cleanup"
    /\ Len(partition_files) = 2
    /\ Len(files.out.batches) = 11
    /\ Len(files.part[1].batches) = 2

\* The connections held by a lease (0 stands for no lease).
Leased == ({meta_conn, fetch_conn} \cup {part_conn[i] : i \in Workers}) \ {0}

\* The number of leases held.
NumLeases ==
    (IF meta_conn # 0 THEN 1 ELSE 0) + (IF fetch_conn # 0 THEN 1 ELSE 0)
    + Cardinality({i \in Workers : part_conn[i] # 0})

\* A holder is about to call ConnectionPool::acquire.
AtAcquire(i) ==
    \/ i = -1 /\ pc = "start"
    \/ i = -2 /\ fetcher.pc = "start"
    \/ i \in Workers /\ pc = "par_run" /\ wpc[i] = "start"
                     /\ Cardinality(running) < threads

\* A step in which a lease is handed out pops exactly the last idle
\* connection, or, the idle set being empty, creates a brand-new connection.
AcquireStep ==
    NumLeases' > NumLeases =>
        /\ NumLeases' = NumLeases + 1
        /\ IF idle # <<>>
           THEN /\ Leased' = Leased \cup {idle[Len(idle)]}
                /\ idle' = SubSeq(idle, 1, Len(idle) - 1)
                /\ created' = created
           ELSE /\ Leased' = Leased \cup {created + 1}
                /\ created + 1 \notin Leased
                /\ idle' = idle
                /\ created' = created + 1
        /\ Cardinality(Leased') = NumLeases'

\* C12: ConnectionPool::acquire never waits for a lease to be released: a
\* holder that calls it can always take its step, whatever leases are held;
\* the step removes exactly one idle connection and leases it, or, when the
\* idle set is empty, creates a new connection and leases that one.
C12_AcquireNeverWaits ==
    /\ [](\A i \in Workers \cup {-1, -2} :
            AtAcquire(i) =>
                \/ i = -1 /\ ENABLED load_metadata_acquire(TRUE)
                \/ i = -2 /\ ENABLED fetcher_acquire(TRUE)
                \/ i \in Workers /\ ENABLED partition_acquire(i, TRUE))
    /\ [][AcquireStep]_vars

\* More leases are held than pool_size, each on a connection of its own.
C12_Witness ==
    /\ NumLeases > pool_size
    /\ pool_size > 0
    /\ created > pool_size
    /\ idle = <<>>
    /\ Cardinality(Leased) = created

\* The elements of a sequence.
Range(s) == {s[k] : k \in 1..Len(s)}

\* No holder that has returned still holds a lease, and every connection
\* ever created is either leased or idle, exactly once.
LeasesReturned ==
    /\ pc # "meta" => meta_conn = 0
    /\ \A i \in Workers : wpc[i] \in {"idle", "start", "done"} => part_conn[i] = 0
    /\ fetcher.pc \in {"none", "start", "ended"} => fetch_conn = 0
    /\ Range(idle) \cup Leased = 1..created
    /\ Range(idle) \cap Leased = {}
    /\ Len(idle) + NumLeases = created

\* A step in which leases end pushes their connections back, so that the
\* idle count grows by one for each.
ReleaseStep ==
    NumLeases' < NumLeases =>
        /\ NumLeases' = NumLeases - 1
        /\ \E c \in Leased : idle' = Append(idle, c) /\ Leased' = Leased \ {c}

\* C13: every lease returns its connection to the idle set on every exit
\* path of its holder: once load_metadata, extract_partition or the fetch
\* thread has returned, with a value or with an error, its connection is
\* idle again, and the step that ends the lease grows the idle count by one.
C13_LeaseAlwaysReturned == []LeasesReturned /\ [][ReleaseStep]_vars

\* A partition whose batch build or writer failed has returned its
\* connection, as have all the others.
C13_Witness ==
    /\ pc = "par_run"
    /\ \E i \in Workers :
        /\ wpc[i] = "done"
        /\ wres[i].kind = "err"
        /\ wrows[i] > 0
        /\ wrange[i] # <<>>
    /\ NumLeases = 0
    /\ Len(idle) = created
    /\ created > pool_size

\* C14: ConnectionPool::new either leaves exactly pool_size idle
\* connections and Extractor::new returns, or returns an error and no pool:
\* no connection is kept, and nothing of extract_table can run.
C14_PoolAllOrError ==
    /\ pc = "start" =>
        /\ idle = [c \in 1..pool_size |-> c]
        /\ created = pool_size
        /\ result = NoResult
    /\ pc = "new_failed" =>
        /\ idle = <<>> /\ created = 0
        /\ result = ErrResult
        /\ meta = NoMeta /\ NumLeases = 0
        /\ ~ENABLED NextNew
    /\ pc \notin {"new", "new_failed"} => created >= pool_size

C14_Witness ==
    /\ pc = "new_failed"
    /\ pool_size = NewMaxPool
    /\ idle = <<>>
    /\ result = ErrResult

\* C15 (as claimed): once extract_parallel_pk has returned, after a
\* successful or a failed merge, no partition temp file exists.
C15_TempFilesRemoved ==
    (ParPath /\ pc = "done") => \A i \in Workers : ~files.part[i].exists

\* The entry of an int64 array for a cell: the value of an integer; for a
\* float the value rounded toward zero, with the end of the i64 range for a
\* float beyond it and 0 for NaN; null for every other cell.
Int64EntryFor(cell) ==
    IF cell.kind = "Integer" THEN Entry(FALSE, "i64", cell.n, <<>>)
    ELSE IF cell.kind = "Floating" /\ cell.cls = "finite"
    THEN Entry(FALSE, "i64",
               CHOOSE z \in -10..10 :
                   /\ z * cell.n >= 0
                   /\ (IF z >= 0 THEN z ELSE -z) * 10 <= (IF cell.n >= 0 THEN cell.n ELSE -cell.n)
                   /\ (IF cell.n >= 0 THEN cell.n ELSE -cell.n) < ((IF z >= 0 THEN z ELSE -z) + 1) * 10,
               <<>>)
    ELSE IF cell.kind = "Floating" /\ cell.cls = "nan" THEN Entry(FALSE, "i64", 0, <<>>)
    ELSE IF cell.kind = "Floating" /\ cell.cls = "above" THEN Entry(FALSE, "i64::MAX", 0, <<>>)
    ELSE IF cell.kind = "Floating" /\ cell.cls = "below" THEN Entry(FALSE, "i64::MIN", 0, <<>>)
    ELSE NullEntry

\* C16: for a column whose target type is 64-bit integer, the array built
\* has exactly one entry per row, in row order: the value of a native
\* integer, the truncated value of a float, and null for a missing, null,
\* text, boolean or other cell.
C16_Int64Column ==
    bbatch.returned =>
        \A ci \in 1..Len(bcols) :
            bcols[ci].data_type = "Int64" =>
                /\ Len(bbatch.arrays[ci].values) = Len(brows)
                /\ \A r \in 1..Len(brows) :
                    bbatch.arrays[ci].values[r] = Int64EntryFor(CellAt(brows[r], ci))

C16_Witness ==
    /\ bbatch.returned
    /\ bcols[1].data_type = "Int64"
    /\ Len(brows) = 2
    /\ brows[1] = <<FloatingCell(-15)>>
    /\ brows[2] = <<>>
    /\ bbatch.arrays[1].values = <<Entry(FALSE, "i64", -1, <<>>), NullEntry>>

\* The cell variants the arm of a target type takes a value from.
AcceptedKinds(data_type) ==
    IF data_type \in {"Int64", "Float64"} THEN {"Integer", "Floating"}
    ELSE IF data_type = "Utf8" THEN {"Text", "Integer", "Floating", "Boolean"}
    ELSE IF data_type = "Binary" THEN {"Text"}
    ELSE {}

\* C17: for every target column type and every cell variant, batch
\* construction does not fail: build_arrow_batch returns a batch, every
\* column array has the type of its column and one entry per input row,
\* and a cell the target type does not accept is a null at its row index
\* (an accepted cell is a value).
C17_BatchNeverFails ==
    bbatch.returned =>
        /\ bbatch.ok
        /\ Len(bbatch.arrays) = Len(bcols)
        /\ \A ci \in 1..Len(bcols) :
            /\ bbatch.arrays[ci].data_type = bcols[ci].data_type
            /\ Len(bbatch.arrays[ci].values) = Len(brows)
            /\ \A r \in 1..Len(brows) :
                bbatch.arrays[ci].values[r].null
                    <=> CellAt(brows[r], ci).kind \notin AcceptedKinds(bcols[ci].data_type)

C17_Witness ==
    /\ bbatch.returned
    /\ bbatch.ok
    /\ Len(bcols) = 2
    /\ bcols[1].data_type = "Binary"
    /\ Len(brows) = 2
    /\ brows[1] = <<IntegerCell(7), TextCell(<<" ", "a", " ">>)>>
    /\ brows[2] = <<TextCell(<<" ", "a", " ">>)>>
    /\ bbatch.arrays[1].values[1].null
    /\ ~bbatch.arrays[1].values[2].null
    /\ bbatch.arrays[2].values = <<NullEntry, NullEntry>>

\* extract_table called extract_parallel_pk.
TookParallel == pc = "par_run" /\ \A i \in Workers : wpc[i] # "idle"

\* extract_table called extract_sequential.
TookSequential == pc = "seq_recv" /\ fetcher.pc # "none"

\* The table has a primary-key index with at least one key column, all of
\* whose types are SMALLINT (7), INTEGER (8) or BIGINT (16).
HasIntegralPrimaryKey(t) ==
    /\ t.has_index
    /\ t.pk_constraint
    /\ t.pk_types # <<>>
    /\ \A c \in 1..Len(t.pk_types) : t.pk_types[c] \in {7, 8, 16}

\* C18 (as claimed): a non-empty table is extracted by the parallel path if
\* it has a primary-key index with at least one key column whose columns
\* all have type 7, 8 or 16, and by the sequential path otherwise.
C18_DispatchOnPrimaryKey ==
    (meta.loaded /\ table.rows > 0 /\ pc \notin {"loaded", "done"}) =>
        /\ TookParallel <=> HasIntegralPrimaryKey(table)
        /\ TookSequential <=> ~HasIntegralPrimaryKey(table)

\* extract_sequential has returned success and the pipeline is at rest:
\* the fetch thread ended after its sentinel, the writer thread finalized
\* the file, and both queues are drained.
SeqPipelineDone ==
    /\ pc = "done"
    /\ result = OkResult(table.rows)
    /\ fetcher.pc = "ended" /\ fetcher.failed = "no"
    /\ swriter = "ok"
    /\ fetch_q = <<>> /\ batch_q = <<>>
    /\ files.out.closed
    /\ NumLeases = 0

\* C19: with no failures and under fair scheduling of the three threads,
\* the sequential pipeline always terminates: extract_sequential returns
\* after both threads have ended, with no thread left blocked on a queue.
C19_SequentialTerminates == []<>SeqPipelineDone

\* The fetch thread is blocked on the full fetch queue while the
\* orchestrator is blocked on the full batch queue.
C19_Witness ==
    /\ Len(fetch_q) = FetchQueueCap
    /\ Len(batch_q) = BatchQueueCap
    /\ fetcher.pc = "send"
    /\ pc = "seq_send"

\* Every call of extract_partition has returned, and with an error if its
\* writer thread failed.
AllPartitionsReturned ==
    /\ pc = "par_run"
    /\ \A i \in Workers :
        /\ wpc[i] = "done"
        /\ wres[i].kind # "none"
        /\ wwriter[i] = "err" => wres[i].kind = "err"

\* C20: a partition worker never deadlocks on its capacity-4 queue: for
\* every number of chunks and wherever its writer thread fails or succeeds,
\* extract_partition eventually returns, and whenever it has returned with
\* a failed writer thread it has returned an error.
C20_PartitionReturns ==
    /\ [](\A i \in Workers :
            (wpc[i] = "done" /\ wwriter[i] = "err") => wres[i].kind = "err")
    /\ []<>AllPartitionsReturned

\* The writer thread failed while the worker still had chunks to send and
\* the queue was full; the worker returned the error.
C20_Witness ==
    /\ pc = "par_run"
    /\ wpc[0] = "done"
    /\ wwriter[0] = "err"
    /\ Len(wq[0]) = PartQueueCap
    /\ wchunk[0] < NumChunks(wrows[0], batch_size)
    /\ wres[0] = ErrResult


\* The temp file of a partition of n rows cut in chunks of bs rows: one
\* batch per chunk, in chunk order, finalized.
ChunkedFile(i, n, bs) ==
    [exists |-> TRUE,
     batches |-> [k \in 1..((n + bs - 1) \div bs) |->
                    FileBatch(i, (k - 1) * bs,
                              IF k * bs <= n THEN bs ELSE n - (k - 1) * bs)],
     closed |-> TRUE]

\* extract_partition of worker i has returned Ok with at least one row.
PartitionSucceeded(i) == wpc[i] = "done" /\ wres[i].kind = "ok" /\ wres[i].rows > 0

\* What the temp file of a partition that succeeded with n rows holds when
\* the function returns: ceil(n / batch_size) batches in chunk order, each
\* of batch_size rows but the last, n rows in all; the file is finalized,
\* the writer thread has returned Ok and has emptied the queue.
PartitionFileComplete ==
    \A i \in Workers :
        (pc = "par_run" /\ PartitionSucceeded(i)) =>
            /\ wres[i].rows = wrows[i]
            /\ files.part[i] = ChunkedFile(i, wrows[i], batch_size)
            /\ Len(files.part[i].batches) = CeilDiv(wrows[i], batch_size)
            /\ \A k \in 1..(Len(files.part[i].batches) - 1) :
                    files.part[i].batches[k].rows = batch_size
            /\ FileRows(files.part[i]) = wrows[i]
            /\ wwriter[i] = "ok"
            /\ wq[i] = <<>>

\* A step that sends on the queue of worker i appends one message; it is a
\* step of the chunk loop or the send of the sentinel, and after the
\* sentinel the worker only joins: nothing is sent after it.
SentinelIsLast ==
    \A i \in Workers :
        Len(wq'[i]) > Len(wq[i]) =>
            /\ wpc[i] \in {"chunks", "sentinel"}
            /\ wq'[i] = Append(wq[i], wq'[i][Len(wq'[i])])
            /\ \A k \in 1..Len(wq[i]) : wq[i][k].some
            /\ ~wq'[i][Len(wq'[i])].some <=> wpc'[i] = "join"
            /\ wq'[i][Len(wq'[i])].some => wq'[i][Len(wq'[i])].from = wchunk[i] * batch_size

\* The step in which the writer thread of worker i finalizes its file: the
\* queue is empty and the file holds every batch that was sent.
FinalizeAfterAllBatches ==
    \A i \in Workers :
        (~files.part[i].closed /\ files'.part[i].closed) =>
            /\ wq[i] = <<>>
            /\ wpc[i] \in {"join", "done"}
            /\ Len(files.part[i].batches) = wchunk[i]
            /\ files'.part[i].batches = files.part[i].batches

\* C21: when extract_partition returns success with n > 0 rows, the temp
\* file of the partition holds ceil(n / batch_size) batches in chunk order,
\* each of batch_size rows except possibly the last, n rows in all, and is
\* finalized; the sentinel is the last message sent on the queue, and the
\* writer thread finalizes only after it has consumed every batch sent.
C21_PartitionFileWritten ==
    /\ []PartitionFileComplete
    /\ [][SentinelIsLast]_vars
    /\ [][FinalizeAfterAllBatches]_vars

\* A partition of ten chunks, more than the queue holds, has succeeded,
\* the last chunk being shorter than the others.
C21_Witness ==
    /\ \E i \in Workers :
        /\ PartitionSucceeded(i)
        /\ Len(files.part[i].batches) = 10
        /\ files.part[i].batches[10].rows < batch_size
        /\ files.part[i].closed
    /\ pc = "par_run"


\* The writer thread of worker i has been spawned and has not returned.
WriterActive(i) == wwriter[i] \in {"create", "loop", "close"}

C23_MergeInputs ==
    (ParPath /\ pc \in {"par_merge", "par_cleanup"}) =>
        /\ Range(partition_files) =
                {i \in Workers : wres[i].kind = "ok" /\ wres[i].rows > 0}
        /\ \A k \in 1..(Len(partition_files) - 1) :
                partition_files[k] < partition_files[k + 1]
        /\ \A i \in Workers :
                (wfailed[i] \/ wrows[i] = 0) => i \notin Range(partition_files)
        /\ \A i \in Workers :
                (~wfailed[i] /\ wrows[i] > 0) => i \in Range(partition_files)

\* The merge is about to run on the file of partition 1 alone: partition 0
\* failed after its writer thread had created its temp file.
C23_Witness ==
    /\ ParPath
    /\ pc = "par_merge"
    /\ partition_files = <<1>>
    /\ wres[0].kind = "err"
    /\ files.part[0].exists
    /\ wrows[0] > 0


\* The fetch thread has a result of its page query in hand: a non-empty
\* page to send, or the completion sentinel to send.
PageInHand == fetcher.pc = "send"
SentinelInHand == fetcher.pc = "send_none"

\* The step pushes the page in hand at the end of the fetch queue; the
\* offset advances by the page size and the next query follows.
PushesPage ==
    /\ fetch_q' = Append(fetch_q, SomeMsg(fetcher.page, fetcher.offset))
    /\ fetcher.page > 0
    /\ fetcher'.offset = fetcher.offset + batch_size
    /\ fetcher'.pc = "query"

\* The step pushes the sentinel at the end of the fetch queue and ends the
\* thread.
PushesSentinel ==
    /\ fetch_q' = Append(fetch_q, NoneMsg)
    /\ fetcher'.offset = fetcher.offset
    /\ fetcher'.pc = "ended"

\* What every step leaves true of the fetch thread: the queue grows only by
\* the page or the sentinel in hand; a query is issued only at the offset
\* reached, and an empty page or an error is followed by nothing but the
\* sentinel; the thread that has ended does nothing more.
FetcherSteps ==
    /\ Len(fetch_q') > Len(fetch_q) =>
            \/ PageInHand /\ PushesPage
            \/ SentinelInHand /\ PushesSentinel
    /\ (fetcher.pc = "query" /\ fetcher'.pc # "query") =>
            /\ fetcher'.offset = fetcher.offset
            /\ LET n == RowsInPage(table, fetcher.offset + 1, fetcher.offset + batch_size)
               IN \/ fetcher'.pc = "send" /\ fetcher'.page = n /\ n > 0
                  \/ fetcher'.pc = "send_none"
    /\ SentinelInHand => fetcher'.pc \in {"send_none", "ended"}
    /\ fetcher.pc = "ended" =>
            /\ fetcher' = fetcher
            /\ Len(fetch_q') <= Len(fetch_q)

\* The pages in the fetch queue are in the order read, at offsets that are
\* multiples of the page size below the offset reached, and nothing follows
\* a sentinel.
FetchQueueInOrder ==
    /\ fetcher.offset % Max(batch_size, 1) = 0
    /\ \A k \in 1..Len(fetch_q) :
        /\ ~fetch_q[k].some => (k = Len(fetch_q) /\ fetcher.pc = "ended")
        /\ fetch_q[k].some =>
            /\ fetch_q[k].rows > 0
            /\ fetch_q[k].from % batch_size = 0
            /\ fetch_q[k].from < fetcher.offset
            /\ k > 1 => fetch_q[k].from = fetch_q[k - 1].from + batch_size

MultiplesReached(rows) == rows \div ProgressEvery

\* C25 (as claimed): in the sequential build stage, for every batch size of
\* calculate_batch_size, every step in which the running row count reaches
\* or passes a further multiple of 500,000 emits a progress report.
C25_ProgressEvery500k ==
    [][(SeqPath /\ MultiplesReached(total_rows') > MultiplesReached(total_rows)) =>
            /\ Len(progress') = Len(progress) + 1
            /\ progress'[Len(progress')] = total_rows']_vars


\* The places a connection is in: its positions in the idle set and the
\* leases that hold it (-1: load_metadata, -2: the fetch thread, i: the
\* partition worker i).
IdlePlaces(c) == {k \in 1..Len(idle) : idle[k] = c}
LeasePlaces(c) ==
    {h \in {-1} : meta_conn = c} \cup {h \in {-2} : fetch_conn = c}
    \cup {i \in Workers : part_conn[i] = c}

\* C26: in every reachable state, under every interleaving of acquires and
\* releases, each connection created is in exactly one place, once in the
\* idle set or held by one lease: none is held by two leases, none is
\* leased and idle, and nothing other than a created connection is idle or
\* leased.
C26_ConnectionInOnePlace ==
    /\ \A c \in 1..created :
            Cardinality(IdlePlaces(c)) + Cardinality(LeasePlaces(c)) = 1
    /\ Range(idle) \cup Leased \subseteq 1..created

\* Two partition workers ran at once on a pool of one connection: the
\* connection created for the second is idle again while the first is still
\* leased.
C26_Witness ==
    /\ pc = "par_run"
    /\ pool_size = 1
    /\ created = 2
    /\ idle = <<2>>
    /\ \E i \in Workers : part_conn[i] = 1
    /\ NumLeases = 1


\* The most leases the phase of extract_table reached can hold at once:
\* one per partition worker while the workers run, one otherwise (that of
\* load_metadata, then that of the fetch thread).
PeakLeases == IF pc = "par_run" THEN parallelism ELSE 1

\* The connections of the pool never outnumber max(pool_size, parallelism,
\* 1), and the leases held never outnumber those of the phase.
PoolGrowthBounded ==
    /\ created <= Max(pool_size, Max(parallelism, 1))
    /\ NumLeases <= PeakLeases
    /\ created <= Max(pool_size, NumLeases + Len(idle))

\* A step creates at most one connection, and only for a lease, with an
\* empty idle set: every connection made before is then leased.
CreatesOnlyWhenNoneIdle ==
    created' # created =>
        /\ created' = created + 1
        /\ idle = <<>> /\ idle' = <<>>
        /\ NumLeases = created
        /\ NumLeases' = created'
        /\ created + 1 \in Leased'

\* C27: during one extract_table call the pool never holds more than
\* max(pool_size, parallelism, 1) connections: a connection is created only
\* when the idle set is empty, at most `parallelism` leases are held at once
\* while the partition workers run and at most one in the metadata and
\* sequential phases.
C27_PoolGrowthBounded == []PoolGrowthBounded /\ [][CreatesOnlyWhenNoneIdle]_vars

\* An empty pool has grown to one connection per partition worker, all
\* leased at once.
C27_Witness ==
    /\ pc = "par_run"
    /\ pool_size = 0
    /\ parallelism >= 2
    /\ created = parallelism
    /\ NumLeases = parallelism
    /\ idle = <<>>


\* Every partition worker has returned, with an error or with zero rows.
NoPartitionHasRows ==
    \A i \in Workers :
        wpc[i] = "done" /\ (wres[i].kind = "err" \/ wres[i] = OkResult(0))

\* What may be at the output path before a merge: nothing, or a file of an
\* earlier run.
OutputsBefore == {NoFile, NewFile, PagedFile(3, 2)}

\* The merge step of a run with no merge input leaves the output path as
\* it is, cannot fail, and goes on to the cleanup.
EmptyMergeStep ==
    (pc = "par_merge" /\ partition_files = <<>> /\ pc' # pc) =>
        /\ files'.out = files.out
        /\ pc' = "par_cleanup"
        /\ ~merge_failed'
        /\ result' = result

\* After the merge step of a run in which no partition has rows there is no
\* output file, and the run returns success with rows_extracted = 0.
EmptyMergeNoOutput ==
    /\ \A f \in OutputsBefore : merge_parquet_files(<<>>, f) = f
    /\ (ParPath /\ pc \in {"par_merge", "par_cleanup", "done"} /\ NoPartitionHasRows) =>
        /\ partition_files = <<>>
        /\ total_rows = 0
        /\ files.out = NoFile
        /\ ~merge_failed
        /\ pc = "done" => result = OkResult(0)

\* C28: merging an empty input list leaves the output path untouched; when
\* every partition worker fails or returns zero rows, extract_parallel_pk
\* creates no output file and returns success with rows_extracted = 0.
C28_EmptyMergeIsNoOp == []EmptyMergeNoOutput /\ [][EmptyMergeStep]_vars

\* One partition failed with rows in hand, the other got no row; the run
\* has returned success with no row and no output file.
C28_Witness ==
    /\ ParPath
    /\ pc = "done"
    /\ parallelism = 2
    /\ \E i \in Workers : wres[i].kind = "err" /\ wrows[i] > 0
    /\ \E i \in Workers : wres[i] = OkResult(0)
    /\ result = OkResult(0)
    /\ ~files.out.exists

============================================================================
